---- MODULE Spec2Model ----
(***************************************************************************)
(* A model of WocabeeHelper: the word store (utils/state.js), the feedback *)
(* tracker (content/observer.js) and the tree queries they rest on         *)
(* (utils/dom.js).                                                         *)
(*                                                                         *)
(* A JavaScript string is modelled as a sequence of characters, each       *)
(* character a one-element TLA+ string, so that trim, toLowerCase,         *)
(* includes and the regular expressions of the source are computed and not *)
(* assumed.  The accented letters of the source are written as named       *)
(* characters ("i_acute" for U+00ED, "u_ring" for U+016F, ...).            *)
(***************************************************************************)
EXTENDS Integers, Sequences, FiniteSets, TLC

(***************************************************************************)
(* Characters and strings                                                  *)
(***************************************************************************)
UpperAscii ==
  <<"A","B","C","D","E","F","G","H","I","J","K","L","M",
    "N","O","P","Q","R","S","T","U","V","W","X","Y","Z">>

LowerAscii ==
  <<"a","b","c","d","e","f","g","h","i","j","k","l","m",
    "n","o","p","q","r","s","t","u","v","w","x","y","z">>

\* the accented letters of the letter class of addWord and isUIText
UpperAccented ==
  <<"A_acute","C_caron","D_caron","E_acute","E_caron","I_acute","N_caron",
    "O_acute","R_caron","S_caron","T_caron","U_acute","U_ring","Y_acute",
    "Z_caron","A_uml","O_uml","U_uml">>

LowerAccented ==
  <<"a_acute","c_caron","d_caron","e_acute","e_caron","i_acute","n_caron",
    "o_acute","r_caron","s_caron","t_caron","u_acute","u_ring","y_acute",
    "z_caron","a_uml","o_uml","u_uml">>

Range(s) == {s[i] : i \in DOMAIN s}

Digits == {"0","1","2","3","4","5","6","7","8","9"}

\* \s of the regular expressions and the characters trim() removes
Whitespace == {" ", "\t", "\n"}

\* [a-zA-Z...] of letterRegex: the ASCII letters, the listed accented letters
\* and the sharp s
Letters ==
  Range(UpperAscii) \cup Range(LowerAscii) \cup Range(UpperAccented)
    \cup Range(LowerAccented) \cup {"sz"}

\* String.prototype.toLowerCase, one character
LowerOf ==
  [c \in Range(UpperAscii) \cup Range(UpperAccented) |->
     IF c \in Range(UpperAscii)
       THEN LowerAscii[CHOOSE i \in DOMAIN UpperAscii : UpperAscii[i] = c]
       ELSE LowerAccented[CHOOSE i \in DOMAIN UpperAccented : UpperAccented[i] = c]]

ToLowerChar(c) == IF c \in DOMAIN LowerOf THEN LowerOf[c] ELSE c

ToLowerCase(s) == [i \in DOMAIN s |-> ToLowerChar(s[i])]

\* String.prototype.trim
Trim(s) ==
  LET keep == {i \in DOMAIN s : s[i] \notin Whitespace}
  IN  IF keep = {} THEN <<>>
      ELSE LET lo == CHOOSE i \in keep : \A j \in keep : i <= j
               hi == CHOOSE i \in keep : \A j \in keep : j <= i
           IN  SubSeq(s, lo, hi)

\* s.replace(/\s+/g, ' '): every maximal run of whitespace becomes one space
RECURSIVE CollapseFrom(_, _)
CollapseFrom(s, i) ==
  IF i > Len(s) THEN <<>>
  ELSE IF s[i] \in Whitespace
    THEN IF i > 1 /\ s[i-1] \in Whitespace
           THEN CollapseFrom(s, i + 1)
           ELSE <<" ">> \o CollapseFrom(s, i + 1)
    ELSE <<s[i]>> \o CollapseFrom(s, i + 1)

CollapseWhitespace(s) == CollapseFrom(s, 1)

\* String.prototype.includes
Includes(s, p) ==
  \E i \in 0..(Len(s) - Len(p)) : SubSeq(s, i + 1, i + Len(p)) = p

\* Array.prototype.includes, on a sequence
\* an includes that never finds the element
Contains_never(seq, x) == FALSE

Contains(seq, x) == \E i \in DOMAIN seq : seq[i] = x

\* (s.match(/[letters]/g) || []).length
CountIn(s, class) == Cardinality({i \in DOMAIN s : s[i] \in class})

\* /^\d+$/.test(s)
AllDigits(s) == Len(s) > 0 /\ \A i \in DOMAIN s : s[i] \in Digits

\* /^\d{10,}/.test(s): ten or more leading digits, no anchor at the end
TenLeadingDigits(s) == Len(s) >= 10 /\ \A i \in 1..10 : s[i] \in Digits

(***************************************************************************)
(* Values that are not strings.  JSON numbers and null reach addWord       *)
(* through importDatabase; they are written as a sequence that starts with *)
(* a type mark no string starts with.                                      *)
(***************************************************************************)
JsNull == <<"#null">>
JsNumber(digits) == <<"#number">> \o digits

\* typeof v === 'string'
IsString(v) == v = <<>> \/ v[1] \notin {"#null", "#number"}

\* !v of JavaScript, for a string, a number or null
Falsy(v) == v = <<>> \/ v = JsNull \/ v = JsNumber(<<"0">>)

(***************************************************************************)
(* normalizeWord (state.js)                                                *)
(***************************************************************************)
\* a normalizeWord that keeps the case
normalizeWord_noLower(word) ==
  IF Falsy(word) \/ ~IsString(word) THEN <<>>
  ELSE CollapseWhitespace(Trim(word))

normalizeWord(word) ==
  IF Falsy(word) \/ ~IsString(word) THEN <<>>
  ELSE CollapseWhitespace(ToLowerCase(Trim(word)))

(***************************************************************************)
(* Map: an insertion-ordered sequence of entries [k, v, arr].  v is the    *)
(* list of items of the value; arr is Array.isArray(value): a value that   *)
(* is no array (possible only in a parsed document) is held as the list of *)
(* that one value with arr = FALSE.                                        *)
(***************************************************************************)
Entry(k, v, arr) == [k |-> k, v |-> v, arr |-> arr]

Has(m, k) == \E i \in DOMAIN m : m[i].k = k

IndexOf(m, k) == CHOOSE i \in DOMAIN m : m[i].k = k

Get(m, k) == m[IndexOf(m, k)]

Keys(m) == {m[i].k : i \in DOMAIN m}

\* Map.prototype.set: an existing key keeps its place
MapSet(m, k, v, arr) ==
  IF Has(m, k) THEN [m EXCEPT ![IndexOf(m, k)] = Entry(k, v, arr)]
  ELSE Append(m, Entry(k, v, arr))

\* the (key, item) pairs of a map, in iteration order
RECURSIVE PairsFrom(_, _, _)
PairsFrom(m, i, j) ==
  IF i > Len(m) THEN <<>>
  ELSE IF j > Len(m[i].v) THEN PairsFrom(m, i + 1, 1)
  ELSE <<[k |-> m[i].k, x |-> m[i].v[j]]>> \o PairsFrom(m, i, j + 1)

PairsOf(m) == PairsFrom(m, 1, 1)

PairSet(m) == UNION {{<<m[i].k, m[i].v[j]>> : j \in DOMAIN m[i].v} : i \in DOMAIN m}

(***************************************************************************)
(* The word-database document.  JSON text is modelled as the sequence of   *)
(* its tokens: a key, the opening and the closing bracket of an array, a   *)
(* value.  JSON.parse fails on a sequence that is no object of keys with   *)
(* array or scalar values.                                                 *)
(***************************************************************************)
Tok(t, s) == [t |-> t, s |-> s]

RECURSIVE ValueTokens(_, _)
ValueTokens(items, j) ==
  IF j > Len(items) THEN <<>>
  ELSE <<Tok("val", items[j])>> \o ValueTokens(items, j + 1)

\* JSON.stringify(Object.fromEntries(map)).  Object.fromEntries keeps the
\* order of the keys of the map: every key of the store has a letter, so
\* none is an integer index, which an object would list first.
RECURSIVE StringifyFrom(_, _)
StringifyFrom(m, i) ==
  IF i > Len(m) THEN <<>>
  ELSE (IF m[i].arr
          THEN <<Tok("key", m[i].k), Tok("open", <<>>)>>
                 \o ValueTokens(m[i].v, 1) \o <<Tok("close", <<>>)>>
          ELSE <<Tok("key", m[i].k)>> \o ValueTokens(m[i].v, 1))
       \o StringifyFrom(m, i + 1)

JsonStringify(m) == <<Tok("{", <<>>)>> \o StringifyFrom(m, 1) \o <<Tok("}", <<>>)>>

\* the index of the bracket that closes the array opened before position i,
\* 0 when the array is not closed
RECURSIVE CloseIndex(_, _)
CloseIndex(doc, i) ==
  IF i > Len(doc) THEN 0
  ELSE IF doc[i].t = "close" THEN i
  ELSE IF doc[i].t = "val" THEN CloseIndex(doc, i + 1)
  ELSE 0

\* the items of an array, its last one left out
ItemsOf_dropLast(doc, lo, hi) == [j \in 1..(hi - lo) |-> doc[lo + j - 1].s]

ItemsOf(doc, lo, hi) == [j \in 1..(hi - lo + 1) |-> doc[lo + j - 1].s]

Parsed(ok, entries) == [ok |-> ok, entries |-> entries]

\* the members of the object, from token i to the closing brace
RECURSIVE ParseMembers(_, _, _)
ParseMembers(doc, i, acc) ==
  IF i > Len(doc) THEN Parsed(FALSE, <<>>)
  ELSE IF doc[i].t = "}"
    THEN Parsed(i = Len(doc), IF i = Len(doc) THEN acc ELSE <<>>)
  ELSE IF doc[i].t # "key" \/ i + 1 > Len(doc) THEN Parsed(FALSE, <<>>)
  ELSE IF doc[i + 1].t = "val"
    THEN ParseMembers(doc, i + 2, MapSet(acc, doc[i].s, <<doc[i + 1].s>>, FALSE))
  ELSE IF doc[i + 1].t = "open"
    THEN LET c == CloseIndex(doc, i + 2)
         IN  IF c = 0 THEN Parsed(FALSE, <<>>)
             ELSE ParseMembers(doc, c + 1,
                               MapSet(acc, doc[i].s, ItemsOf(doc, i + 2, c - 1), TRUE))
  ELSE Parsed(FALSE, <<>>)

\* Object.entries(JSON.parse(text)); ok = FALSE when JSON.parse throws
JsonParse(doc) ==
  IF Len(doc) = 0 \/ doc[1].t # "{" THEN Parsed(FALSE, <<>>)
  ELSE ParseMembers(doc, 2, <<>>)

(***************************************************************************)
(* The word store (state.js).  A store is the record                       *)
(* [wordDatabase, reverseDatabase, stats].                                 *)
(***************************************************************************)
Stats(wordsIndexed, answersHelped) ==
  [wordsIndexed |-> wordsIndexed, answersHelped |-> answersHelped]

Store(db, rev, st) == [wordDatabase |-> db, reverseDatabase |-> rev, stats |-> st]

EmptyStore == Store(<<>>, <<>>, Stats(0, 0))

\* if (!reverseDatabase.has(target)) set(target, []); get(target).push(source)
RevPush(rev, target, source) ==
  IF Has(rev, target)
    THEN [rev EXCEPT ![IndexOf(rev, target)].v = Append(@, source)]
    ELSE Append(rev, Entry(target, <<source>>, TRUE))

\* an addWord that leaves the reverse database as it is
RevPushDedup_skip(rev, target, source) == rev

\* the same, skipping a source that is already listed (addWord)
RevPushDedup(rev, target, source) ==
  IF Has(rev, target) /\ Contains(Get(rev, target).v, source) THEN rev
  ELSE RevPush(rev, target, source)

RECURSIVE RebuildFrom(_, _, _)
RebuildFrom(pairs, i, rev) ==
  IF i > Len(pairs) THEN rev
  ELSE RebuildFrom(pairs, i + 1, RevPush(rev, pairs[i].x, pairs[i].k))

\* a rebuild that only clears
rebuildReverseDatabase_onlyClear(db) == <<>>

\* rebuildReverseDatabase: clear, then every target of an array value, or the
\* value itself when it is no array, lists its source
rebuildReverseDatabase(db) == RebuildFrom(PairsOf(db), 1, <<>>)

uiWords ==
  << <<"l","e","a","r","n","i","n","g"," ","m","o","d","e">>,
     <<"w","o","c","a","b","e","e">>,
     <<"s","e","z","n","a","m">>,
     <<"b","a","l","i_acute","k","u_ring">>,
     <<"s","e","t","t","i","n","g","s">>,
     <<"m","e","n","u">>,
     <<"n","e","x","t">>,
     <<"b","a","c","k">>,
     <<"i","n","d","e","x","e","d">>,
     <<"w","o","r","d","s"," ","k","n","o","w","n">> >>

\* a validation without the list of UI words
rejectsPair_noUiWords(source, target) ==
  \/ Falsy(source) \/ Falsy(target)
  \/ ~IsString(source) \/ ~IsString(target)
  \/ LET s == normalizeWord(source)
         t == normalizeWord(target)
     IN  \/ s = <<>> \/ t = <<>>
         \/ s = t
         \/ AllDigits(s) \/ AllDigits(t)
         \/ TenLeadingDigits(s) \/ TenLeadingDigits(t)
         \/ CountIn(s, Letters) < 2 \/ CountIn(t, Letters) < 2

\* a validation that lets a source equal to its target through
rejectsPair_noEqual(source, target) ==
  \/ Falsy(source) \/ Falsy(target)
  \/ ~IsString(source) \/ ~IsString(target)
  \/ LET s == normalizeWord(source)
         t == normalizeWord(target)
     IN  \/ s = <<>> \/ t = <<>>
         \/ AllDigits(s) \/ AllDigits(t)
         \/ TenLeadingDigits(s) \/ TenLeadingDigits(t)
         \/ CountIn(s, Letters) < 2 \/ CountIn(t, Letters) < 2
         \/ \E i \in DOMAIN uiWords :
              \/ Includes(ToLowerCase(s), uiWords[i])
              \/ Includes(ToLowerCase(t), uiWords[i])

\* the checks of addWord on the raw arguments and on the normalized pair:
\* TRUE when addWord returns false before it touches the database
rejectsPair(source, target) ==
  \/ Falsy(source) \/ Falsy(target)
  \/ ~IsString(source) \/ ~IsString(target)
  \/ LET s == normalizeWord(source)
         t == normalizeWord(target)
     IN  \/ s = <<>> \/ t = <<>>
         \/ s = t
         \/ AllDigits(s) \/ AllDigits(t)
         \/ TenLeadingDigits(s) \/ TenLeadingDigits(t)
         \/ CountIn(s, Letters) < 2 \/ CountIn(t, Letters) < 2
         \/ LET lowerSource == ToLowerCase(s)
                lowerTarget == ToLowerCase(t)
            IN  \E i \in DOMAIN uiWords :
                  \/ Includes(lowerSource, uiWords[i])
                  \/ Includes(lowerTarget, uiWords[i])

\* a saveToStorage that hands over the counters with an empty database
saveToStorage_countersOnly(st) ==
  [wordDatabase |-> JsonStringify(<<>>), stats |-> st.stats]

\* saveToStorage(): the document handed to chrome.storage.local.set, made of
\* the store of that moment
saveToStorage(st) ==
  [wordDatabase |-> JsonStringify(st.wordDatabase), stats |-> st.stats]

\* the result of a store operation: the store after it, what it returned and
\* the documents it handed to saveToStorage, in order
Outcome(st, ret, saves) ==
  [st |-> st, ret |-> ret, saves |-> saves, raised |-> FALSE]

\* the operation has thrown: it returns nothing, and the store is as the
\* statements before the throw have left it
Thrown(st, saves) == [st |-> st, ret |-> FALSE, saves |-> saves, raised |-> TRUE]

\* translations.includes(target) and translations.push(target) on a value of
\* the database that is no array, which loadFromStorage takes from the
\* persisted document as it is: a string has includes, which looks for the
\* target in it, and no push; any other value has neither
pushThrows(entry, target) ==
  ~entry.arr /\ ~(IsString(entry.v[1]) /\ Includes(entry.v[1], target))

\* an addWord that puts a new target in front of the list
addWord_prepend(st, source, target) ==
  IF rejectsPair(source, target) THEN Outcome(st, FALSE, <<>>)
  ELSE
    LET s   == normalizeWord(source)
        t   == normalizeWord(target)
        db  == st.wordDatabase
        db1 == IF Has(db, s) THEN db ELSE Append(db, Entry(s, <<>>, TRUE))
    IN  IF ~Contains(Get(db1, s).v, t)
          THEN LET added == Store([db1 EXCEPT ![IndexOf(db1, s)].v = <<t>> \o @],
                                  RevPushDedup(st.reverseDatabase, t, s),
                                  [st.stats EXCEPT !.wordsIndexed = @ + 1])
               IN  Outcome(added, TRUE, <<saveToStorage(added)>>)
          ELSE Outcome([st EXCEPT !.wordDatabase = db1], FALSE, <<>>)

\* addWord(source, target)
addWord(st, source, target) ==
  IF rejectsPair(source, target) THEN Outcome(st, FALSE, <<>>)
  ELSE
    LET s   == normalizeWord(source)
        t   == normalizeWord(target)
        db  == st.wordDatabase
        \* if (!wordDatabase.has(source)) wordDatabase.set(source, [])
        db1 == IF Has(db, s) THEN db ELSE Append(db, Entry(s, <<>>, TRUE))
        translations == Get(db1, s).v
    IN  IF ~Get(db1, s).arr
          THEN (IF pushThrows(Get(db1, s), t) THEN Thrown(st, <<>>)
                ELSE Outcome(st, FALSE, <<>>))
        ELSE IF ~Contains(translations, t)
          THEN LET added == Store([db1 EXCEPT ![IndexOf(db1, s)].v = Append(@, t)],
                                  RevPushDedup(st.reverseDatabase, t, s),
                                  [st.stats EXCEPT !.wordsIndexed = @ + 1])
               IN  Outcome(added, TRUE, <<saveToStorage(added)>>)
          ELSE Outcome([st EXCEPT !.wordDatabase = db1], FALSE, <<>>)

\* addWords(wordPairs): every pair goes through addWord, in order; returns the
\* number of pairs added.  An addWord that throws ends the loop.
RECURSIVE addWordsFrom(_, _, _, _, _)
addWordsFrom(st, wordPairs, i, addedCount, saves) ==
  IF i > Len(wordPairs) THEN Outcome(st, addedCount, saves)
  ELSE LET r == addWord(st, wordPairs[i][1], wordPairs[i][2])
       IN  IF r.raised THEN Thrown(r.st, saves)
           ELSE addWordsFrom(r.st, wordPairs, i + 1,
                             IF r.ret THEN addedCount + 1 ELSE addedCount,
                             saves \o r.saves)

addWords(st, wordPairs) == addWordsFrom(st, wordPairs, 1, 0, <<>>)

\* [...new Set(matches)]: the first occurrence of every element, in order
RECURSIVE DedupFrom(_, _, _)
DedupFrom(seq, i, acc) ==
  IF i > Len(seq) THEN acc
  ELSE DedupFrom(seq, i + 1, IF Contains(acc, seq[i]) THEN acc ELSE Append(acc, seq[i]))

Dedup(seq) == DedupFrom(seq, 1, <<>>)

\* the value lists of the entries of m whose key contains the word or is
\* contained in it, concatenated in iteration order
RECURSIVE MatchesFrom(_, _, _)
MatchesFrom(m, lowerWord, i) ==
  IF i > Len(m) THEN <<>>
  ELSE (IF \/ Includes(ToLowerCase(m[i].k), lowerWord)
           \/ Includes(lowerWord, ToLowerCase(m[i].k))
          THEN m[i].v ELSE <<>>)
       \o MatchesFrom(m, lowerWord, i + 1)

\* a findPartialMatch that searches the main database only
findPartialMatch_primaryOnly(st, word) ==
  LET lowerWord == ToLowerCase(word)
      matches   == MatchesFrom(st.wordDatabase, lowerWord, 1)
  IN  IF Len(matches) > 0 THEN Dedup(matches) ELSE <<>>

\* findPartialMatch(word): null is the empty list here
findPartialMatch(st, word) ==
  LET lowerWord == ToLowerCase(word)
      matches   == MatchesFrom(st.wordDatabase, lowerWord, 1)
                     \o MatchesFrom(st.reverseDatabase, lowerWord, 1)
  IN  IF Len(matches) > 0 THEN Dedup(matches) ELSE <<>>

\* a findTranslation that looks into the reverse index first
findTranslation_reverseFirst(st, word) ==
  LET w == normalizeWord(word)
  IN  IF Has(st.reverseDatabase, w) THEN Get(st.reverseDatabase, w).v
      ELSE IF Has(st.wordDatabase, w) THEN Get(st.wordDatabase, w).v
      ELSE findPartialMatch(st, w)

\* findTranslation(word)
findTranslation(st, word) ==
  LET w == normalizeWord(word)
  IN  IF Has(st.wordDatabase, w) THEN Get(st.wordDatabase, w).v
      ELSE IF Has(st.reverseDatabase, w) THEN Get(st.reverseDatabase, w).v
      ELSE findPartialMatch(st, w)

\* getStats()
getStats(st) ==
  [totalWords        |-> Len(st.wordDatabase),
   totalTranslations |-> Len(PairsOf(st.wordDatabase)),
   wordsIndexed      |-> st.stats.wordsIndexed,
   answersHelped     |-> st.stats.answersHelped]

\* a clearDatabase that leaves the reverse database as it is
clearDatabase_keepsReverse(st) ==
  Outcome(Store(<<>>, st.reverseDatabase, Stats(0, 0)), TRUE,
          <<saveToStorage(EmptyStore)>>)

\* clearDatabase()
clearDatabase(st) == Outcome(EmptyStore, TRUE, <<saveToStorage(EmptyStore)>>)

\* exportDatabase()
exportDatabase(st) == JsonStringify(st.wordDatabase)

\* an importDatabase that stops at the first entry addWord rejects
RECURSIVE addWordsUntilRejected(_, _, _, _, _)
addWordsUntilRejected(st, wordPairs, i, addedCount, saves) ==
  IF i > Len(wordPairs) \/ rejectsPair(wordPairs[i][1], wordPairs[i][2])
    THEN Outcome(st, addedCount, saves)
  ELSE LET r == addWord(st, wordPairs[i][1], wordPairs[i][2])
       IN  addWordsUntilRejected(r.st, wordPairs, i + 1,
                                 IF r.ret THEN addedCount + 1 ELSE addedCount,
                                 saves \o r.saves)

importDatabase_stopsAtRejected(st, jsonString) ==
  LET data == JsonParse(jsonString)
      pairs == PairsOf(data.entries)
  IN  IF ~data.ok THEN Outcome(st, 0, <<>>)
      ELSE addWordsUntilRejected(st, [i \in DOMAIN pairs |-> <<pairs[i].k, pairs[i].x>>],
                                 1, 0, <<>>)

\* importDatabase(jsonString): every (source, target) of the document goes
\* through addWord; 0 when the document does not parse, and 0 when an
\* addWord throws, with what was added before it kept
importDatabase(st, jsonString) ==
  LET data == JsonParse(jsonString)
      pairs == PairsOf(data.entries)
      r == addWords(st, [i \in DOMAIN pairs |-> <<pairs[i].k, pairs[i].x>>])
  IN  IF ~data.ok THEN Outcome(st, 0, <<>>)
      ELSE IF r.raised THEN Outcome(r.st, 0, r.saves)
      ELSE r

\* a loadFromStorage that reads the counters although the database does not
\* parse
loadFromStorage_countersAnyway(st, stg) ==
  IF ~stg.present THEN st
  ELSE LET savedWords == JsonParse(stg.wordDatabase)
       IN  IF ~savedWords.ok THEN [st EXCEPT !.stats = stg.stats]
           ELSE Store(savedWords.entries,
                      rebuildReverseDatabase(savedWords.entries),
                      stg.stats)

\* loadFromStorage(): the persisted database, when there is one and it parses,
\* replaces the database in memory, the reverse index is rebuilt from it and
\* the counters are taken from the persisted stats
loadFromStorage(st, stg) ==
  IF ~stg.present THEN st
  ELSE LET savedWords == JsonParse(stg.wordDatabase)
       IN  IF ~savedWords.ok THEN st
           ELSE Store(savedWords.entries,
                      rebuildReverseDatabase(savedWords.entries),
                      stg.stats)

(***************************************************************************)
(* Inputs: the raw words the operations are called with                    *)
(***************************************************************************)
W_Katze == <<"K","a","t","z","e">>
W_cat == <<"c","a","t">>
W_Hund == <<"H","u","n","d">>
W_KatzePadded == <<" ","K","a","t","z","e","	">>
W_CAT == <<"C","A","T">>
W_HotDog == <<"H","o","t"," ","	"," ","d","o","g">>
W_12 == <<"1","2">>
W_x == <<"x">>
W_NextPage == <<"n","e","x","t"," ","p","a","g","e">>
W_Timestamp == <<"1","7","0","0","0","0","0","0","0","0","a","b">>
W_answer == <<"A","n","s","w","e","r">>
W_Katz == <<"K","a","t","z">>
W_at == <<"a","t">>

\* the words findTranslation is called with
Queries == {W_Katze, W_CAT, W_Hund, W_Katz, W_at, W_12}

\* the (source, target) arguments of addWord
RawPairs ==
  {<<a, b>> : a, b \in {W_Katze, W_cat, W_Hund}} \cup
  { <<W_KatzePadded, W_CAT>>, <<W_HotDog, W_Hund>>,
    <<W_12, W_cat>>, <<W_Katze, W_x>>, <<W_NextPage, W_cat>>,
    <<W_Timestamp, W_cat>>, <<W_Katze, <<>> >>, <<W_Katze, JsNull>>,
    <<W_Hund, W_answer>> }

\* the lists of pairs addWords is called with
RawPairLists ==
  { << <<W_Katze, W_cat>>, <<W_Hund, W_cat>> >>,
    << <<W_Katze, W_cat>>, <<W_12, W_cat>>, <<W_Katze, W_Hund>> >>,
    << <<W_cat, W_Hund>>, <<W_cat, W_Hund>> >> }

\* the documents importDatabase is called with: two exported databases, a
\* document with entries addWord rejects and a text that is no JSON
ExportedDoc1 ==
  exportDatabase(addWords(EmptyStore,
    << <<W_Katze, W_cat>>, <<W_Katze, W_Hund>>, <<W_Hund, W_cat>> >>).st)

ExportedDoc2 ==
  exportDatabase(addWords(EmptyStore, << <<W_HotDog, W_Hund>> >>).st)

MixedDoc ==
  << Tok("{", <<>>), Tok("key", W_Katze), Tok("open", <<>>), Tok("val", JsNumber(<<"4">>)),
     Tok("val", W_CAT), Tok("close", <<>>), Tok("key", W_Hund), Tok("val", W_cat),
     Tok("}", <<>>) >>

BrokenDoc == << Tok("{", <<>>), Tok("key", W_Katze), Tok("open", <<>>), Tok("val", W_cat) >>

ImportDocs == {ExportedDoc1, ExportedDoc2, MixedDoc, BrokenDoc}

(***************************************************************************)
(* The page (dom.js).  A tree is the sequence of its elements in document  *)
(* order.  An element carries what the queries of the source read: its     *)
(* tag, its class attribute, its text content, the value and the type of   *)
(* an input, its id and name, the number of its children, the index of its *)
(* parent (0 for a child of body), its bounding rectangle and its computed *)
(* font size.                                                              *)
(***************************************************************************)
El(tag, cls, text) ==
  [tag |-> tag, cls |-> cls, text |-> text, value |-> <<>>, type |-> "",
   id |-> <<>>, name |-> <<>>, children |-> 0, parent |-> 0,
   width |-> 100, height |-> 20, top |-> 100, fontSize |-> 16,
   ariaSelected |-> FALSE, dataCorrect |-> FALSE]

\* window.innerHeight
InnerHeight == 600

\* a compound selector: the tag ("*" for any), the classes and the substrings
\* of the class attribute it requires and excludes, the tags and the input
\* types it excludes, the type, id and attribute tests, and the position
\* among the children of the parent ("first", "last", "*" for any)
AnySel ==
  [tag |-> "*", cls |-> {}, sub |-> {}, notCls |-> {}, notSub |-> {},
   notTag |-> {}, type |-> "*", notType |-> {}, id |-> <<>>, idSub |-> <<>>,
   nameSub |-> <<>>, aria |-> FALSE, child |-> "*"]

TagSel(tag) == [AnySel EXCEPT !.tag = tag]

ClassSel(c) == [AnySel EXCEPT !.cls = {c}]

ClassSub(p) == [AnySel EXCEPT !.sub = {p}]

\* element.classList.contains(c): c is one of the words of the class attribute
HasClass(n, c) == Includes(<<" ">> \o n.cls \o <<" ">>, <<" ">> \o c \o <<" ">>)

\* element.matches(sel)
Matches(n, sel) ==
  /\ sel.tag = "*" \/ n.tag = sel.tag
  /\ \A c \in sel.cls : HasClass(n, c)
  /\ \A p \in sel.sub : Includes(n.cls, p)
  /\ \A c \in sel.notCls : ~HasClass(n, c)
  /\ \A p \in sel.notSub : ~Includes(n.cls, p)
  /\ n.tag \notin sel.notTag
  /\ sel.type = "*" \/ n.type = sel.type
  /\ n.type \notin sel.notType
  /\ sel.id = <<>> \/ n.id = sel.id
  /\ sel.idSub = <<>> \/ Includes(n.id, sel.idSub)
  /\ sel.nameSub = <<>> \/ Includes(n.name, sel.nameSub)
  /\ sel.aria => n.ariaSelected

\* i is a descendant of root; every element is one of the document (root 0)
RECURSIVE IsInside(_, _, _)
IsInside(tree, i, root) ==
  IF root = 0 THEN TRUE
  ELSE IF tree[i].parent = 0 THEN FALSE
  ELSE tree[i].parent = root \/ IsInside(tree, tree[i].parent, root)

\* :first-child and :last-child: no element child of the same parent comes
\* before, or after, the element in document order
ChildPosition(tree, i, child) ==
  CASE child = "first" -> ~\E j \in 1..(i - 1) : tree[j].parent = tree[i].parent
    [] child = "last"  -> ~\E j \in (i + 1)..Len(tree) : tree[j].parent = tree[i].parent
    [] OTHER           -> TRUE

\* parent.querySelectorAll(sel), as the indices in document order
QuerySelectorAll(tree, sel, root) ==
  SelectSeq([i \in DOMAIN tree |-> i],
            LAMBDA i : /\ IsInside(tree, i, root)
                       /\ Matches(tree[i], sel)
                       /\ ChildPosition(tree, i, sel.child))

\* parent.querySelector(sel): the first match in document order, 0 for null
QuerySelector(tree, sel, root) ==
  LET all == QuerySelectorAll(tree, sel, root)
  IN  IF all = <<>> THEN 0 ELSE all[1]

\* find(selectors, parent): the selectors are tried one after the other, and
\* the first element the first successful selector matches is returned
RECURSIVE findFrom(_, _, _, _)
findFrom(tree, selectors, root, k) ==
  IF k > Len(selectors) THEN 0
  ELSE LET element == QuerySelector(tree, selectors[k], root)
       IN  IF element # 0 THEN element
           ELSE findFrom(tree, selectors, root, k + 1)

find(tree, selectors, root) == findFrom(tree, selectors, root, 1)

\* findAll(selectors, parent): the matches of every selector, one after the
\* other, each element once
RECURSIVE findAllFrom(_, _, _, _)
findAllFrom(tree, selectors, root, k) ==
  IF k > Len(selectors) THEN <<>>
  ELSE QuerySelectorAll(tree, selectors[k], root)
         \o findAllFrom(tree, selectors, root, k + 1)

findAll(tree, selectors, root) == Dedup(findAllFrom(tree, selectors, root, 1))

\* getText(element): the trimmed text content, '' for null
getText(tree, element) == IF element = 0 THEN <<>> ELSE Trim(tree[element].text)

(***************************************************************************)
(* WocabeeConfig.selectors (dom.js)                                        *)
(***************************************************************************)
InputTypesExcluded == {"hidden", "submit", "checkbox", "radio", "password"}

answerInputSelectors ==
  << [TagSel("input") EXCEPT !.type = "text"],
     [TagSel("input") EXCEPT !.type = "search"],
     [TagSel("input") EXCEPT !.notType = InputTypesExcluded],
     TagSel("textarea"),
     [AnySel EXCEPT !.id = <<"a","n","s","w","e","r">>],
     [AnySel EXCEPT !.nameSub = <<"a","n","s","w","e","r">>],
     [AnySel EXCEPT !.idSub = <<"a","n","s","w","e","r">>] >>

answerOptionsSelectors ==
  << ClassSel(<<"a","n","s","w","e","r">>), ClassSel(<<"c","h","o","i","c","e">>), ClassSel(<<"o","p","t","i","o","n">>), ClassSel(<<"b","t","n">>),
     [TagSel("button") EXCEPT !.notType = {"submit"}],
     ClassSub(<<"a","n","s","w","e","r">>), ClassSub(<<"c","h","o","i","c","e">>), ClassSub(<<"o","p","t","i","o","n">>) >>

correctFeedbackSelectors ==
  << ClassSel(<<"c","o","r","r","e","c","t">>), ClassSel(<<"s","u","c","c","e","s","s">>), ClassSel(<<"r","i","g","h","t">>),
     ClassSel(<<"g","o","o","d">>), ClassSel(<<"g","r","e","e","n">>),
     ClassSub(<<"c","o","r","r","e","c","t">>), ClassSub(<<"s","u","c","c","e","s","s">>), ClassSub(<<"r","i","g","h","t">>),
     ClassSub(<<"g","o","o","d">>) >>

incorrectFeedbackSelectors ==
  << ClassSel(<<"i","n","c","o","r","r","e","c","t">>), ClassSel(<<"w","r","o","n","g">>), ClassSel(<<"e","r","r","o","r">>),
     ClassSel(<<"b","a","d">>), ClassSel(<<"r","e","d">>),
     ClassSub(<<"i","n","c","o","r","r","e","c","t">>), ClassSub(<<"w","r","o","n","g">>), ClassSub(<<"e","r","r","o","r">>),
     ClassSub(<<"b","a","d">>) >>

revealedAnswerSelectors ==
  << ClassSel(<<"c","o","r","r","e","c","t","-","a","n","s","w","e","r">>), ClassSel(<<"r","i","g","h","t","-","a","n","s","w","e","r">>), ClassSel(<<"s","o","l","u","t","i","o","n">>),
     ClassSel(<<"r","e","v","e","a","l">>), ClassSel(<<"s","h","o","w","-","a","n","s","w","e","r">>),
     ClassSub(<<"s","o","l","u","t","i","o","n">>), ClassSub(<<"r","e","v","e","a","l">>), ClassSub(<<"c","o","r","r","e","c","t","-","a","n","s","w","e","r">>) >>

questionWordSelectors ==
  << ClassSel(<<"w","o","r","d">>), ClassSel(<<"q","u","e","s","t","i","o","n">>), TagSel("h1"), TagSel("h2"),
     TagSel("h3"), ClassSel(<<"b","i","g">>), ClassSel(<<"l","a","r","g","e">>), ClassSel(<<"m","a","i","n">>),
     [ClassSub(<<"w","o","r","d">>) EXCEPT !.notTag = {"input", "button"},
                               !.notSub = {<<"p","a","s","s","w","o","r","d">>}] >>

(***************************************************************************)
(* isUIText and findCurrentQuestion (dom.js)                               *)
(***************************************************************************)
uiPatterns ==
  << <<"n","e","x","t">>,
     <<"c","o","n","t","i","n","u","e">>,
     <<"s","k","i","p">>,
     <<"s","u","b","m","i","t">>,
     <<"c","h","e","c","k">>,
     <<"o","k">>,
     <<"c","a","n","c","e","l">>,
     <<"c","o","r","r","e","c","t">>,
     <<"w","r","o","n","g">>,
     <<"r","i","g","h","t">>,
     <<"e","r","r","o","r">>,
     <<"s","u","c","c","e","s","s">>,
     <<"l","o","a","d","i","n","g">>,
     <<"p","l","e","a","s","e"," ","w","a","i","t">>,
     <<"s","c","o","r","e">>,
     <<"p","o","i","n","t","s">>,
     <<"p","r","o","g","r","e","s","s">>,
     <<"l","o","g","i","n">>,
     <<"l","o","g","o","u","t">>,
     <<"s","i","g","n">>,
     <<"r","e","g","i","s","t","e","r">>,
     <<"p","a","s","s","w","o","r","d">>,
     <<"m","e","n","u">>,
     <<"h","o","m","e">>,
     <<"b","a","c","k">>,
     <<"s","e","t","t","i","n","g","s">>,
     <<"h","e","l","p">>,
     <<"w","o","c","a","b","e","e">>,
     <<"c","o","p","y","r","i","g","h","t">>,
     <<"copyright_sign">>,
     <<"c","o","o","k","i","e">>,
     <<"p","r","i","v","a","c","y">>,
     <<"c","l","i","c","k">>,
     <<"t","a","p">>,
     <<"p","r","e","s","s">>,
     <<"s","e","l","e","c","t">>,
     <<"c","h","o","o","s","e">>,
     <<"l","e","a","r","n","i","n","g"," ","m","o","d","e">>,
     <<"w","o","c","a","b","e","e","h","e","l","p","e","r">>,
     <<"i","n","d","e","x","e","d">>,
     <<"w","o","r","d","s"," ","k","n","o","w","n">>,
     <<"h","i","n","t">>,
     <<"a","n","s","w","e","r">>,
     <<"t","r","a","n","s","l","a","t","i","o","n">>,
     <<"s","e","z","n","a","m">>,
     <<"b","a","l","i_acute","k","u_ring">>,
     <<"b","a","l","i_acute","k">>,
     <<"n","a","s","t","a","v","e","n","i_acute">>,
     <<"o","d","h","l","a_acute","s","i","t">>,
     <<"p","r_caron","i","h","l","a_acute","s","i","t">>,
     <<"p","o","k","r","a","c_caron","o","v","a","t">>,
     <<"z","p","e_caron","t">>,
     <<"d","a","l","s_caron","i_acute">>,
     <<"h","o","t","o","v","o">>,
     <<"s","p","r","a_acute","v","n","e_caron">>,
     <<"s_caron","p","a","t","n","e_caron">>,
     <<"c","h","y","b","a">>,
     <<"b","o","d","y">>,
     <<"s","k","o_acute","r","e">> >>

Max(S) == CHOOSE x \in S : \A y \in S : y <= x

Min(S) == CHOOSE x \in S : \A y \in S : x <= y

\* an isUIText that rejects the phrases of the list by exact match only
isUIText_exactOnly(text) ==
  \/ Falsy(text) \/ ~IsString(text)
  \/ LET lowerText   == Trim(ToLowerCase(text))
         letterCount == CountIn(text, Letters)
         digitCount  == CountIn(text, Digits)
     IN  \/ AllDigits(Trim(text))
         \/ letterCount < 2
         \/ digitCount > letterCount
         \/ Contains(uiPatterns, lowerText)

\* isUIText(text)
isUIText(text) ==
  \/ Falsy(text) \/ ~IsString(text)
  \/ LET lowerText   == Trim(ToLowerCase(text))
         letterCount == CountIn(text, Letters)
         digitCount  == CountIn(text, Digits)
     IN  \/ AllDigits(Trim(text))
         \/ letterCount < 2
         \/ digitCount > letterCount
         \/ Contains(uiPatterns, lowerText)
         \/ \E i \in DOMAIN uiPatterns : Includes(lowerText, uiPatterns[i])

prominentSelectors ==
  << TagSel("h1"), TagSel("h2"), TagSel("h3"),
     ClassSel(<<"w","o","r","d">>), ClassSel(<<"q","u","e","s","t","i","o","n">>), ClassSel(<<"v","o","c","a","b">>),
     ClassSub(<<"w","o","r","d">>), ClassSub(<<"q","u","e","s","t","i","o","n">>),
     ClassSel(<<"b","i","g">>), ClassSel(<<"l","a","r","g","e">>), ClassSel(<<"m","a","i","n">>), ClassSel(<<"p","r","i","m","a","r","y">>),
     TagSel("strong"), TagSel("b"), TagSel("em") >>

Visible(n) == n.width > 0 /\ n.height > 0

\* strategy 1: the elements of one prominent selector that qualify
ProminentHits(tree, sel) ==
  SelectSeq(QuerySelectorAll(tree, sel, 0),
            LAMBDA i :
              LET text == getText(tree, i)
              IN  /\ tree[i].tag \notin {"input", "button", "a"}
                  /\ tree[i].children <= 3
                  /\ Len(text) >= 1 /\ Len(text) < 100
                  /\ ~isUIText(ToLowerCase(text))
                  /\ Visible(tree[i]))

RECURSIVE prominentFrom(_, _)
prominentFrom(tree, k) ==
  IF k > Len(prominentSelectors) THEN 0
  ELSE LET hits == ProminentHits(tree, prominentSelectors[k])
       IN  IF hits # <<>> THEN hits[1] ELSE prominentFrom(tree, k + 1)

\* strategy 2: twice the score of an element (the factor 1.5 of a heading
\* leaves an integer)
Score2(n) ==
  LET fontSize     == IF n.fontSize = 0 THEN 12 ELSE n.fontSize
      isInViewport == n.top >= 0 /\ 2 * n.top < InnerHeight
      s0 == 2 * fontSize
      s1 == IF isInViewport THEN 2 * s0 ELSE s0
      s2 == IF n.tag \in {"h1", "h2", "h3", "h4", "h5", "h6"} THEN (3 * s1) \div 2 ELSE s1
      lowerClass == ToLowerCase(n.cls)
      s3 == IF \/ Includes(lowerClass, <<"w","o","r","d">>)
               \/ Includes(lowerClass, <<"q","u","e","s","t","i","o","n">>)
               \/ Includes(lowerClass, <<"v","o","c","a","b">>)
              THEN 2 * s2 ELSE s2
  IN  s3

ScoringCandidates(tree) ==
  SelectSeq([i \in DOMAIN tree |-> i],
            LAMBDA i :
              LET text == getText(tree, i)
              IN  /\ tree[i].tag \notin {"script", "style", "input", "button", "a",
                                         "html", "body", "head"}
                  /\ tree[i].children <= 2
                  /\ Len(text) >= 2 /\ Len(text) <= 100
                  /\ ~isUIText(ToLowerCase(text))
                  /\ Visible(tree[i]))

\* a scan that keeps the last element of the highest score
RECURSIVE bestFrom_lastWins(_, _, _, _, _)
bestFrom_lastWins(tree, cands, k, bestCandidate, bestScore) ==
  IF k > Len(cands) THEN bestCandidate
  ELSE IF Score2(tree[cands[k]]) >= bestScore
    THEN bestFrom_lastWins(tree, cands, k + 1, cands[k], Score2(tree[cands[k]]))
    ELSE bestFrom_lastWins(tree, cands, k + 1, bestCandidate, bestScore)

\* if (score > bestScore): the first element of the highest score is kept
RECURSIVE bestFrom(_, _, _, _, _)
bestFrom(tree, cands, k, bestCandidate, bestScore) ==
  IF k > Len(cands) THEN bestCandidate
  ELSE IF Score2(tree[cands[k]]) > bestScore
    THEN bestFrom(tree, cands, k + 1, cands[k], Score2(tree[cands[k]]))
    ELSE bestFrom(tree, cands, k + 1, bestCandidate, bestScore)

\* findCurrentQuestion(): the text of the question, <<>> for null
findCurrentQuestion(tree) ==
  LET prominent == prominentFrom(tree, 1)
      best      == bestFrom(tree, ScoringCandidates(tree), 1, 0, 0)
      question  == find(tree, questionWordSelectors, 0)
  IN  IF prominent # 0 THEN getText(tree, prominent)
      ELSE IF best # 0 THEN getText(tree, best)
      ELSE IF /\ question # 0
              /\ getText(tree, question) # <<>>
              /\ ~isUIText(ToLowerCase(getText(tree, question)))
        THEN getText(tree, question)
      ELSE <<>>

\* findAnswerOptions()
findAnswerOptions(tree) ==
  SelectSeq(findAll(tree, answerOptionsSelectors, 0),
            LAMBDA i : LET text == getText(tree, i)
                       IN  Len(text) > 0 /\ Len(text) < 200)

\* findAnswerInput()
findAnswerInput(tree) == find(tree, answerInputSelectors, 0)

(***************************************************************************)
(* The classifier (dom.js): extractWordPairs and detectExerciseType        *)
(***************************************************************************)
gameContainerSelectors ==
  << ClassSel(<<"g","a","m","e">>), ClassSub(<<"g","a","m","e">>), [AnySel EXCEPT !.id = <<"g","a","m","e">>] >>

testContainerSelectors ==
  << ClassSel(<<"t","e","s","t">>), ClassSel(<<"e","x","a","m">>), ClassSel(<<"q","u","i","z">>),
     ClassSub(<<"t","e","s","t">>), ClassSub(<<"e","x","a","m">>), ClassSub(<<"q","u","i","z">>) >>

wordPairSelectors ==
  << ClassSel(<<"w","o","r","d","-","p","a","i","r">>), ClassSel(<<"v","o","c","a","b","u","l","a","r","y","-","i","t","e","m">>), ClassSel(<<"v","o","c","a","b","-","i","t","e","m">>),
     ClassSel(<<"p","a","i","r">>), TagSel("tr"), TagSel("li"), ClassSel(<<"r","o","w">>), ClassSel(<<"i","t","e","m">>) >>

sourceWordSelectors ==
  << ClassSel(<<"s","o","u","r","c","e">>), ClassSel(<<"o","r","i","g","i","n","a","l">>), ClassSel(<<"f","r","o","m">>), ClassSel(<<"l","e","f","t">>),
     [TagSel("td") EXCEPT !.child = "first"], [TagSel("span") EXCEPT !.child = "first"] >>

targetWordSelectors ==
  << ClassSel(<<"t","a","r","g","e","t">>), ClassSel(<<"t","r","a","n","s","l","a","t","i","o","n">>), ClassSel(<<"t","o">>), ClassSel(<<"r","i","g","h","t">>),
     [TagSel("td") EXCEPT !.child = "last"], [TagSel("span") EXCEPT !.child = "last"] >>

\* item.querySelectorAll('td, .cell, .word'): one selector list, so the
\* matches come in document order
cellSelectors == << TagSel("td"), ClassSel(<<"c","e","l","l">>), ClassSel(<<"w","o","r","d">>) >>

QuerySelectorAllOf(tree, selectors, root) ==
  SelectSeq([i \in DOMAIN tree |-> i],
            LAMBDA i : /\ IsInside(tree, i, root)
                       /\ \E k \in DOMAIN selectors :
                            /\ Matches(tree[i], selectors[k])
                            /\ ChildPosition(tree, i, selectors[k].child))

\* the pair of one word item, as a sequence of no or one pair
pairOfCells(tree, cells) ==
  IF Len(cells) >= 2 /\ getText(tree, cells[1]) # <<>> /\ getText(tree, cells[2]) # <<>>
    THEN << <<getText(tree, cells[1]), getText(tree, cells[2])>> >>
    ELSE <<>>

pairOfItem(tree, source, target, item) ==
  IF source # 0 /\ target # 0
    THEN IF getText(tree, source) # <<>> /\ getText(tree, target) # <<>>
           THEN << <<getText(tree, source), getText(tree, target)>> >>
           ELSE <<>>
    ELSE pairOfCells(tree, QuerySelectorAllOf(tree, cellSelectors, item))

RECURSIVE pairsFromItems(_, _, _)
pairsFromItems(tree, wordItems, k) ==
  IF k > Len(wordItems) THEN <<>>
  ELSE pairOfItem(tree, find(tree, sourceWordSelectors, wordItems[k]),
                  find(tree, targetWordSelectors, wordItems[k]), wordItems[k])
         \o pairsFromItems(tree, wordItems, k + 1)

\* extractWordPairs()
extractWordPairs(tree) ==
  pairsFromItems(tree, findAll(tree, wordPairSelectors, 0), 1)

\* a classifier that looks for the input before it counts the options
detectExerciseType_inputFirst(tree) ==
  IF findAnswerInput(tree) # 0 THEN "typing"
  ELSE IF Len(findAnswerOptions(tree)) >= 2 THEN "selection"
  ELSE IF find(tree, gameContainerSelectors, 0) # 0 THEN "game"
  ELSE IF find(tree, testContainerSelectors, 0) # 0 THEN "test"
  ELSE IF extractWordPairs(tree) # <<>> THEN "vocabulary"
  ELSE "null"

\* detectExerciseType(): "null" for null
detectExerciseType(tree) ==
  IF Len(findAnswerOptions(tree)) >= 2 THEN "selection"
  ELSE IF findAnswerInput(tree) # 0 THEN "typing"
  ELSE IF find(tree, gameContainerSelectors, 0) # 0 THEN "game"
  ELSE IF find(tree, testContainerSelectors, 0) # 0 THEN "test"
  ELSE IF extractWordPairs(tree) # <<>> THEN "vocabulary"
  ELSE "null"

(***************************************************************************)
(* The answer extractors (observer.js)                                     *)
(***************************************************************************)
StartsWithAt(s, i, p) == i + Len(p) - 1 <= Len(s) /\ SubSeq(s, i, i + Len(p) - 1) = p

\* the alternatives of /(correct|right|good|great|excellent|super|...|!)/gi,
\* in the order of the pattern; the two symbols are the three characters
\* U+00E2 U+0153 U+201C and U+00E2 U+0153 U+201D of the source text
feedbackPhrases ==
  << <<"c","o","r","r","e","c","t">>, <<"r","i","g","h","t">>, <<"g","o","o","d">>, <<"g","r","e","a","t">>, <<"e","x","c","e","l","l","e","n","t">>, <<"s","u","p","e","r">>,
     <<"a_circ", "oe_lig", "ldquo">>, <<"a_circ", "oe_lig", "rdquo">>, <<"!">> >>

\* text.replace(/(...)/gi, ''): every match is removed, scanning from the left
RECURSIVE StripFrom(_, _, _)
StripFrom(text, lower, i) ==
  IF i > Len(text) THEN <<>>
  ELSE LET hits == {k \in DOMAIN feedbackPhrases : StartsWithAt(lower, i, feedbackPhrases[k])}
       IN  IF hits = {} THEN <<text[i]>> \o StripFrom(text, lower, i + 1)
           ELSE StripFrom(text, lower, i + Len(feedbackPhrases[Min(hits)]))

StripFeedbackPhrases(text) == StripFrom(text, ToLowerCase(text), 1)

highlightedCorrectSelectors ==
  << ClassSel(<<"w","h","-","c","o","r","r","e","c","t">>),
     [AnySel EXCEPT !.cls = {<<"s","e","l","e","c","t","e","d">>, <<"c","o","r","r","e","c","t">>}],
     [AnySel EXCEPT !.cls = {<<"c","o","r","r","e","c","t">>, <<"s","e","l","e","c","t","e","d">>}],
     [AnySel EXCEPT !.sub = {<<"c","o","r","r","e","c","t">>, <<"s","e","l","e","c","t","e","d">>}] >>

activeAnswerSelectors ==
  << ClassSel(<<"a","c","t","i","v","e">>), ClassSel(<<"s","e","l","e","c","t","e","d">>), [AnySel EXCEPT !.aria = TRUE],
     ClassSel(<<"c","l","i","c","k","e","d">>) >>

\* a findCorrectAnswer that does not read the answer input (no method 1)
findCorrectAnswer_skipInput(tree) ==
  LET highlightedCorrect == find(tree, highlightedCorrectSelectors, 0)
      activeAnswer       == find(tree, activeAnswerSelectors, 0)
      successEl          == find(tree, correctFeedbackSelectors, 0)
      filtered           == Trim(StripFeedbackPhrases(getText(tree, successEl)))
  IN  IF highlightedCorrect # 0 THEN getText(tree, highlightedCorrect)
      ELSE IF /\ activeAnswer # 0
              /\ getText(tree, activeAnswer) # <<>>
              /\ ~isUIText(ToLowerCase(getText(tree, activeAnswer)))
        THEN getText(tree, activeAnswer)
      ELSE IF successEl # 0 /\ Len(filtered) > 0 /\ Len(filtered) < 100
        THEN filtered
      ELSE <<>>

\* findCorrectAnswer(): <<>> for null and for ''
findCorrectAnswer(tree) ==
  LET input              == findAnswerInput(tree)
      highlightedCorrect == find(tree, highlightedCorrectSelectors, 0)
      activeAnswer       == find(tree, activeAnswerSelectors, 0)
      successEl          == find(tree, correctFeedbackSelectors, 0)
      filtered           == Trim(StripFeedbackPhrases(getText(tree, successEl)))
  IN  IF input # 0 /\ Len(Trim(tree[input].value)) > 0 THEN Trim(tree[input].value)
      ELSE IF highlightedCorrect # 0 THEN getText(tree, highlightedCorrect)
      ELSE IF /\ activeAnswer # 0
              /\ getText(tree, activeAnswer) # <<>>
              /\ ~isUIText(ToLowerCase(getText(tree, activeAnswer)))
        THEN getText(tree, activeAnswer)
      ELSE IF successEl # 0 /\ Len(filtered) > 0 /\ Len(filtered) < 100
        THEN filtered
      ELSE <<>>

\* the regular expressions of findRevealedAnswer on the lower-cased text; each
\* operator gives the index where the captured group (.+) starts, 0 when the
\* rest of the pattern does not match from position i
WsRun(s, i) ==
  LET stop == {j \in i..Len(s) : s[j] \notin Whitespace}
  IN  IF stop = {} THEN Len(s) + 1 - i ELSE Min(stop) - i

SepRun(s, i) ==
  LET stop == {j \in i..Len(s) : s[j] \notin Whitespace \cup {":"}}
  IN  IF stop = {} THEN Len(s) + 1 - i ELSE Min(stop) - i

\* [:\s]+(.+): the longest run of separators that leaves a character the dot
\* matches
SepThenGroup(s, i) ==
  LET ok == {k \in 1..SepRun(s, i) : i + k <= Len(s) /\ s[i + k] # "\n"}
  IN  IF ok = {} THEN 0 ELSE i + Max(ok)

\* (?:\s*is)?[:\s]+(.+)
OptIsThenGroup(s, i) ==
  LET ok == {j \in 0..WsRun(s, i) :
               StartsWithAt(s, i + j, <<"i","s">>) /\ SepThenGroup(s, i + j + 2) # 0}
  IN  IF ok # {} THEN SepThenGroup(s, i + Max(ok) + 2) ELSE SepThenGroup(s, i)

\* (?:answer)?(?:\s*is)?[:\s]+(.+)
OptAnswerThenGroup(s, i) ==
  IF StartsWithAt(s, i, <<"a","n","s","w","e","r">>) /\ OptIsThenGroup(s, i + 6) # 0
    THEN OptIsThenGroup(s, i + 6)
    ELSE OptIsThenGroup(s, i)

\* word\s*(?:answer)?(?:\s*is)?[:\s]+(.+) from position i
PhraseAt(s, i, word) ==
  IF ~StartsWithAt(s, i, word) THEN 0
  ELSE LET q  == i + Len(word)
           ok == {a \in 0..WsRun(s, q) : OptAnswerThenGroup(s, q + a) # 0}
       IN  IF ok = {} THEN 0 ELSE OptAnswerThenGroup(s, q + Max(ok))

\* should\s*(?:be|have been)[:\s]+(.+) from position i
ShouldAt(s, i) ==
  IF ~StartsWithAt(s, i, <<"s","h","o","u","l","d">>) THEN 0
  ELSE LET q    == i + 6
           alt(j) == IF StartsWithAt(s, j, <<"b","e">>) /\ SepThenGroup(s, j + 2) # 0
                       THEN SepThenGroup(s, j + 2)
                     ELSE IF StartsWithAt(s, j, <<"h","a","v","e"," ","b","e","e","n">>)
                       THEN SepThenGroup(s, j + 9)
                     ELSE 0
           ok   == {a \in 0..WsRun(s, q) : alt(q + a) # 0}
       IN  IF ok = {} THEN 0 ELSE alt(q + Max(ok))

\* word[:\s]+(.+) from position i
PlainAt(s, i, word) ==
  IF ~StartsWithAt(s, i, word) THEN 0 ELSE SepThenGroup(s, i + Len(word))

\* pattern k of the list, tried from position i
PatternAt(s, i, k) ==
  CASE k = 1 -> PhraseAt(s, i, <<"c","o","r","r","e","c","t">>)
    [] k = 2 -> PhraseAt(s, i, <<"r","i","g","h","t">>)
    [] k = 3 -> ShouldAt(s, i)
    [] k = 4 -> PlainAt(s, i, <<"a","n","s","w","e","r">>)
    [] k = 5 -> PlainAt(s, i, <<"s","o","l","u","t","i","o","n">>)

\* text.match(pattern)[1]: the group of the leftmost match, to the end of the
\* line; <<>> when the pattern does not match
GroupOf(text, k) ==
  LET s    == ToLowerCase(text)
      from == {i \in DOMAIN s : PatternAt(s, i, k) # 0}
  IN  IF from = {} THEN <<>>
      ELSE LET g   == PatternAt(s, Min(from), k)
               nl  == {j \in g..Len(s) : s[j] = "\n"}
           IN  SubSeq(text, g, IF nl = {} THEN Len(s) ELSE Min(nl) - 1)

\* the result of the loop over the patterns: the trimmed group of the first
\* pattern that matches; matched = FALSE when none does
RECURSIVE phraseFrom(_, _)
phraseFrom(text, k) ==
  IF k > 5 THEN [matched |-> FALSE, answer |-> <<>>]
  ELSE IF GroupOf(text, k) # <<>>
    THEN [matched |-> TRUE, answer |-> Trim(GroupOf(text, k))]
    ELSE phraseFrom(text, k + 1)

correctOptionSelectors ==
  << [AnySel EXCEPT !.cls = {<<"c","o","r","r","e","c","t">>}, !.notCls = {<<"s","e","l","e","c","t","e","d">>}],
     [AnySel EXCEPT !.sub = {<<"c","o","r","r","e","c","t">>}, !.notSub = {<<"i","n">>}],
     ClassSel(<<"r","i","g","h","t","-","a","n","s","w","e","r">>), ClassSel(<<"s","o","l","u","t","i","o","n">>) >>

\* an option that is marked as the correct one
MarkedCorrect(tree, opt) ==
  \/ HasClass(tree[opt], <<"c","o","r","r","e","c","t">>)
  \/ tree[opt].dataCorrect
  \/ find(tree, <<ClassSel(<<"c","o","r","r","e","c","t">>), ClassSub(<<"c","o","r","r","e","c","t">>)>>, opt) # 0

\* findRevealedAnswer(): <<>> for null and for ''
findRevealedAnswer(tree) ==
  LET revealed      == find(tree, revealedAnswerSelectors, 0)
      correctOption == find(tree, correctOptionSelectors, 0)
      errorEl       == find(tree, incorrectFeedbackSelectors, 0)
      phrase        == phraseFrom(getText(tree, errorEl), 1)
      marked        == SelectSeq(findAnswerOptions(tree),
                                 LAMBDA opt : MarkedCorrect(tree, opt))
  IN  IF revealed # 0 THEN getText(tree, revealed)
      ELSE IF correctOption # 0 THEN getText(tree, correctOption)
      ELSE IF errorEl # 0 /\ phrase.matched THEN phrase.answer
      ELSE IF marked # <<>> THEN getText(tree, marked[1])
      ELSE <<>>

(***************************************************************************)
(* The feedback tracker (observer.js).  During a pass the observer is the  *)
(* record of the store, of its two fields lastQuestion and                 *)
(* isWaitingForResult, and of what the pass has done: the extractors it    *)
(* called, the addWord calls with what they returned, the notifications it *)
(* showed and the documents handed to saveToStorage.                       *)
(***************************************************************************)
Tracker(st, question, waiting) ==
  [st |-> st, lastQuestion |-> question, isWaitingForResult |-> waiting,
   calls |-> <<>>, adds |-> <<>>, events |-> <<>>, saves |-> <<>>,
   raised |-> FALSE]

\* a tracker that keeps an unresolved question when another one is found
trackQuestion_keepUnresolved(t, currentQuestion) ==
  IF currentQuestion # <<>> /\ currentQuestion # t.lastQuestion
     /\ ~t.isWaitingForResult
    THEN [t EXCEPT !.lastQuestion = currentQuestion, !.isWaitingForResult = TRUE]
    ELSE t

\* a tracker that waits again for every question it finds
trackQuestion_everyFound(t, currentQuestion) ==
  IF currentQuestion # <<>>
    THEN [t EXCEPT !.lastQuestion = currentQuestion, !.isWaitingForResult = TRUE]
    ELSE t

\* a found question that differs from the tracked one replaces it, resolved
\* or not
trackQuestion(t, currentQuestion) ==
  IF currentQuestion # <<>> /\ currentQuestion # t.lastQuestion
    THEN [t EXCEPT !.lastQuestion = currentQuestion, !.isWaitingForResult = TRUE]
    ELSE t

\* a body that shows the notification whatever addWord has returned
learned_notifiesAlways(t, added, correctAnswer, type) ==
  [t EXCEPT
     !.st = added.st,
     !.saves = @ \o added.saves,
     !.adds = Append(@, [source |-> t.lastQuestion,
                         target |-> correctAnswer, ret |-> added.ret]),
     !.events = Append(@, [type |-> type,
                           question |-> t.lastQuestion,
                           answer |-> correctAnswer])]

\* a non-empty answer goes to addWord, and the notification is shown when
\* addWord returned true
learned(t, added, correctAnswer, type) ==
  [t EXCEPT
     !.st = added.st,
     !.saves = @ \o added.saves,
     !.adds = Append(@, [source |-> t.lastQuestion,
                         target |-> correctAnswer, ret |-> added.ret]),
     !.events = IF added.ret
                  THEN Append(@, [type |-> type,
                                  question |-> t.lastQuestion,
                                  answer |-> correctAnswer])
                  ELSE @]

\* the common body of learnFromCorrectAnswer and learnFromIncorrectAnswer
\* after the extractor has run: isWaitingForResult is reset in every case
\* but that of an addWord that throws, which the body does not catch
learn(t, extractor, correctAnswer, type) ==
  IF correctAnswer # <<>> /\ addWord(t.st, t.lastQuestion, correctAnswer).raised
    THEN [t EXCEPT !.calls = Append(@, extractor), !.raised = TRUE]
  ELSE
  [(IF correctAnswer = <<>> THEN t
    ELSE learned(t, addWord(t.st, t.lastQuestion, correctAnswer),
                 correctAnswer, type))
     EXCEPT !.calls = Append(@, extractor), !.isWaitingForResult = FALSE]

\* what the queries of a pass return on the document: the pass reads the
\* document through them only
Dom(tree) ==
  [findCurrentQuestion |-> findCurrentQuestion(tree),
   correctFeedback     |-> find(tree, correctFeedbackSelectors, 0),
   incorrectFeedback   |-> find(tree, incorrectFeedbackSelectors, 0),
   findCorrectAnswer   |-> findCorrectAnswer(tree),
   findRevealedAnswer  |-> findRevealedAnswer(tree),
   inputValue          |-> IF findAnswerInput(tree) = 0 THEN <<>>
                           ELSE tree[findAnswerInput(tree)].value]

\* a learnFromCorrectAnswer that shows no notification
learnFromCorrectAnswer_silent(t, dom) ==
  [learn(t, "findCorrectAnswer", dom.findCorrectAnswer, "correct")
     EXCEPT !.events = t.events]

\* a learnFromCorrectAnswer that does not reset isWaitingForResult
learnFromCorrectAnswer_staysWaiting(t, dom) ==
  [learn(t, "findCorrectAnswer", dom.findCorrectAnswer, "correct")
     EXCEPT !.isWaitingForResult = t.isWaitingForResult]

\* learnFromCorrectAnswer()
learnFromCorrectAnswer(t, dom) ==
  IF t.lastQuestion = <<>> THEN t
  ELSE learn(t, "findCorrectAnswer", dom.findCorrectAnswer, "correct")

\* learnFromIncorrectAnswer()
learnFromIncorrectAnswer(t, dom) ==
  IF t.lastQuestion = <<>> THEN t
  ELSE learn(t, "findRevealedAnswer", dom.findRevealedAnswer, "correction")

\* checkForFeedbackAndLearn(): the two feedback checks follow one another, and
\* the second reads isWaitingForResult as the first has left it
\* if (correctFeedback && this.isWaitingForResult) learnFromCorrectAnswer()
checkCorrect(t, dom) ==
  IF dom.correctFeedback # 0 /\ t.isWaitingForResult
    THEN learnFromCorrectAnswer(t, dom) ELSE t

\* if (incorrectFeedback && this.isWaitingForResult) learnFromIncorrectAnswer()
checkIncorrect(t, dom) ==
  IF t.raised THEN t
  ELSE IF dom.incorrectFeedback # 0 /\ t.isWaitingForResult
    THEN learnFromIncorrectAnswer(t, dom) ELSE t

\* the checks that follow the update of the question: none without a question
checkFeedback(t, dom) ==
  IF t.lastQuestion = <<>> THEN t
  ELSE checkIncorrect(checkCorrect(t, dom), dom)

checkForFeedbackAndLearn(st, question, waiting, dom) ==
  checkFeedback(trackQuestion(Tracker(st, question, waiting),
                              dom.findCurrentQuestion), dom)

(***************************************************************************)
(* Inputs: the pages a pass of the tracker sees                            *)
(***************************************************************************)
W_dog == <<"d","o","g">>

H1(text) == El("h1", <<>>, text)

Input(value) == [El("input", <<>>, <<>>) EXCEPT !.type = "text", !.value = value]

Div(cls, text) == El("div", cls, text)

Button(cls, text) == El("button", cls, text)

\* nothing but the body
PageBlank == <<>>

\* a typing exercise, nothing typed
PageKatze == <<H1(W_Katze), Input(<<>>)>>

PageHund == <<H1(W_Hund), Input(<<>>)>>

\* the answer typed and accepted
PageKatzeCorrect == <<H1(W_Katze), Input(W_cat), Div(<<"s","u","c","c","e","s","s">>, <<"C","o","r","r","e","c","t","!">>)>>

PageHundCorrect == <<H1(W_Hund), Input(W_dog), Div(<<"s","u","c","c","e","s","s">>, <<"C","o","r","r","e","c","t","!">>)>>

\* the next question is shown while the feedback of the last one is still up
PageHundStale == <<H1(W_Hund), Input(W_cat), Div(<<"s","u","c","c","e","s","s">>, <<"C","o","r","r","e","c","t","!">>)>>

\* a wrong answer, the right one told in the feedback
PageKatzeWrong ==
  <<H1(W_Katze), Input(W_dog), Div(<<"w","r","o","n","g">>, <<"W","r","o","n","g","!"," ","C","o","r","r","e","c","t"," ","a","n","s","w","e","r",":"," ","c","a","t">>)>>

\* a wrong answer, the right one shown in an element of its own
PageHundSolution ==
  <<H1(W_Hund), Input(W_cat), Div(<<"w","r","o","n","g">>, <<"W","r","o","n","g">>), El("span", <<"s","o","l","u","t","i","o","n">>, W_dog)>>

\* a wrong answer under a class named incorrect
PageKatzeIncorrect == <<H1(W_Katze), Input(W_dog), Div(<<"i","n","c","o","r","r","e","c","t">>, <<"I","n","c","o","r","r","e","c","t">>)>>

\* both feedback elements on the page
PageKatzeBoth ==
  <<H1(W_Katze), Input(W_cat), Div(<<"s","u","c","c","e","s","s">>, <<"C","o","r","r","e","c","t","!">>),
    Div(<<"e","r","r","o","r">>, <<"A","n","s","w","e","r",":"," ","d","o","g">>)>>

\* feedback with nothing to extract
PageKatzeCorrectNoAnswer == <<H1(W_Katze), Input(<<>>), Div(<<"s","u","c","c","e","s","s">>, <<"C","o","r","r","e","c","t","!">>)>>

PageKatzeWrongNoAnswer == <<H1(W_Katze), Input(<<>>), Div(<<"w","r","o","n","g">>, <<"W","r","o","n","g">>)>>

\* the question typed back as the answer
PageKatzeSame == <<H1(W_Katze), Input(W_Katze), Div(<<"s","u","c","c","e","s","s">>, <<"C","o","r","r","e","c","t","!">>)>>

\* a selection exercise, the chosen option marked
PageHundSelection ==
  <<H1(W_Hund), Button(<<"o","p","t","i","o","n">>, W_cat), Button(<<"o","p","t","i","o","n"," ","s","e","l","e","c","t","e","d"," ","c","o","r","r","e","c","t">>, W_dog)>>

\* feedback and no question
PageFeedbackOnly == <<Input(W_cat), Div(<<"s","u","c","c","e","s","s">>, <<"C","o","r","r","e","c","t","!">>)>>

\* the marked option has no text; the feedback tells the answer
PageKatzeEmptyHighlight ==
  <<H1(W_Katze), Input(<<>>), El("span", <<"w","h","-","c","o","r","r","e","c","t">>, <<>>),
    Div(<<"s","u","c","c","e","s","s">>, <<"C","o","r","r","e","c","t","!"," ","c","a","t">>)>>

\* the element for the solution is empty; the feedback tells the answer
PageHundEmptySolution ==
  <<H1(W_Hund), Input(<<>>), El("span", <<"s","o","l","u","t","i","o","n">>, <<>>),
    Div(<<"w","r","o","n","g">>, <<"W","r","o","n","g","!"," ","C","o","r","r","e","c","t"," ","a","n","s","w","e","r",":"," ","d","o","g">>)>>

\* the pages by name
Pages ==
  [Blank |-> PageBlank, Katze |-> PageKatze, Hund |-> PageHund,
   KatzeCorrect |-> PageKatzeCorrect, HundCorrect |-> PageHundCorrect,
   HundStale |-> PageHundStale, KatzeWrong |-> PageKatzeWrong,
   HundSolution |-> PageHundSolution, KatzeIncorrect |-> PageKatzeIncorrect,
   KatzeBoth |-> PageKatzeBoth,
   KatzeCorrectNoAnswer |-> PageKatzeCorrectNoAnswer,
   KatzeWrongNoAnswer |-> PageKatzeWrongNoAnswer,
   KatzeSame |-> PageKatzeSame, HundSelection |-> PageHundSelection,
   FeedbackOnly |-> PageFeedbackOnly,
   KatzeEmptyHighlight |-> PageKatzeEmptyHighlight,
   HundEmptySolution |-> PageHundEmptySolution]

\* the readings of every page
DomOf ==
  [Blank |-> Dom(PageBlank), Katze |-> Dom(PageKatze), Hund |-> Dom(PageHund),
   KatzeCorrect |-> Dom(PageKatzeCorrect), HundCorrect |-> Dom(PageHundCorrect),
   HundStale |-> Dom(PageHundStale), KatzeWrong |-> Dom(PageKatzeWrong),
   HundSolution |-> Dom(PageHundSolution),
   KatzeIncorrect |-> Dom(PageKatzeIncorrect),
   KatzeBoth |-> Dom(PageKatzeBoth),
   KatzeCorrectNoAnswer |-> Dom(PageKatzeCorrectNoAnswer),
   KatzeWrongNoAnswer |-> Dom(PageKatzeWrongNoAnswer),
   KatzeSame |-> Dom(PageKatzeSame), HundSelection |-> Dom(PageHundSelection),
   FeedbackOnly |-> Dom(PageFeedbackOnly),
   KatzeEmptyHighlight |-> Dom(PageKatzeEmptyHighlight),
   HundEmptySolution |-> Dom(PageHundEmptySolution)]

(***************************************************************************)
(* The change-notification gate (observer.js): handleMutations and the     *)
(* two gates of processChanges.  Times are in milliseconds.  The pending   *)
(* timers are the sequence of the times they are due at; debounceTimer is  *)
(* the due time of the timer it names, 0 for null.                         *)
(***************************************************************************)
\* WocabeeConfig.timing.observerDebounce
observerDebounce == 100

\* processChanges: the least time between two processes
MinProcessSpacing == 500

\* processChanges: the least change of the length of the text
MinContentChange == 10

\* clearTimeout(handle): the timer the handle names is no longer pending
clearTimeout(pending, handle) ==
  IF \E i \in DOMAIN pending : pending[i] = handle
    THEN LET i == Max({j \in DOMAIN pending : pending[j] = handle})
         IN  SubSeq(pending, 1, i - 1) \o SubSeq(pending, i + 1, Len(pending))
    ELSE pending

\* a handleMutations that leaves the pending timer in place
handleMutations_noClear(pending, handle, t) ==
  [timers |-> Append(pending, t + observerDebounce),
   debounceTimer |-> t + observerDebounce]

\* handleMutations(mutations) at time t
handleMutations(pending, handle, t) ==
  [timers |-> Append(clearTimeout(pending, handle), t + observerDebounce),
   debounceTimer |-> t + observerDebounce]

Abs(x) == IF x < 0 THEN -x ELSE x

\* a processChanges without the gate on the time
processChanges_noSpacing(processedTime, contentLength, t, currentContent) ==
  IF Abs(currentContent - contentLength) < MinContentChange
    THEN [lastProcessedTime |-> t, lastContentLength |-> contentLength,
          admitted |-> FALSE]
    ELSE [lastProcessedTime |-> t, lastContentLength |-> currentContent,
          admitted |-> TRUE]

\* the two gates of processChanges at time t, the text of the body being
\* currentContent characters long: the fields they leave, and whether the
\* pass goes on to the classifier and the tracker
processChanges(processedTime, contentLength, t, currentContent) ==
  IF t - processedTime < MinProcessSpacing
    THEN [lastProcessedTime |-> processedTime, lastContentLength |-> contentLength,
          admitted |-> FALSE]
  ELSE IF Abs(currentContent - contentLength) < MinContentChange
    THEN [lastProcessedTime |-> t, lastContentLength |-> contentLength,
          admitted |-> FALSE]
    ELSE [lastProcessedTime |-> t, lastContentLength |-> currentContent,
          admitted |-> TRUE]

\* indexVocabulary(): r is what addWords(extractWordPairs()) returns
indexVocabulary(t, r) == [t EXCEPT !.st = r.st, !.saves = @ \o r.saves]

\* onExerciseChange(type) after the tracker: a vocabulary list is indexed;
\* the other types go to the rendering of the helper
onExerciseChange(t, type, pairs) ==
  IF type = "vocabulary" THEN indexVocabulary(t, addWords(t.st, pairs)) ELSE t

\* processChanges after its gates, t being what the tracker leaves: the
\* exercise is handled when its type is not the current one
exerciseChange(t, current, view) ==
  IF view.type # current THEN onExerciseChange(t, view.type, view.pairs) ELSE t

\* the classifier and the tracker of an admitted pass
admittedPass(st, question, waiting, current, view) ==
  exerciseChange(checkForFeedbackAndLearn(st, question, waiting, view.dom),
                 current, view)

(***************************************************************************)
(* Inputs: the views the gate is driven with                               *)
(***************************************************************************)
\* document.body.innerText.length: the texts of the elements
RECURSIVE innerTextLength(_)
innerTextLength(tree) ==
  IF tree = <<>> THEN 0 ELSE Len(Head(tree).text) + innerTextLength(Tail(tree))

Td(row, text) == [El("td", <<>>, text) EXCEPT !.parent = row]

\* a selection exercise with an input left on the page
PageHundSelectionInput ==
  <<H1(W_Hund), Button(<<"o","p","t","i","o","n">>, W_cat), Button(<<"o","p","t","i","o","n">>, W_dog), Input(<<>>)>>

\* one option only, and an input
PageKatzeOneOption == <<H1(W_Katze), Button(<<"o","p","t","i","o","n">>, W_cat), Input(<<>>)>>

PageGame == <<El("div", <<"g","a","m","e"," ","b","o","a","r","d">>, <<"K","a","t","z","e">>)>>

PageTest == <<El("div", <<"q","u","i","z">>, <<"H","u","n","d">>), El("table", <<>>, <<>>)>>

\* a list of vocabulary: two rows of two cells
PageVocabulary ==
  << [El("tr", <<>>, <<>>) EXCEPT !.children = 2], Td(1, W_Katze), Td(1, W_cat),
     [El("tr", <<>>, <<>>) EXCEPT !.children = 2], Td(4, W_Hund), Td(4, W_dog) >>

\* a game with a list of vocabulary beside it
PageGameVocabulary == PageGame \o
  << [El("tr", <<>>, <<>>) EXCEPT !.children = 2], Td(2, W_Katze), Td(2, W_cat) >>

\* what a pass reads of a page
View(tree) ==
  [dom |-> Dom(tree), length |-> innerTextLength(tree),
   type |-> detectExerciseType(tree), pairs |-> extractWordPairs(tree)]

\* the pages the classifier is applied to, by name
ClassifyPages ==
  [Blank |-> PageBlank, Katze |-> PageKatze, KatzeCorrect |-> PageKatzeCorrect,
   HundSelectionInput |-> PageHundSelectionInput,
   KatzeOneOption |-> PageKatzeOneOption,
   Game |-> PageGame, Test |-> PageTest, Vocabulary |-> PageVocabulary,
   GameVocabulary |-> PageGameVocabulary]

\* the pages the browser shows to the observer
ViewOf ==
  [Blank |-> View(PageBlank), Katze |-> View(PageKatze),
   KatzeCorrect |-> View(PageKatzeCorrect),
   HundSelectionInput |-> View(PageHundSelectionInput),
   Game |-> View(PageGame), Test |-> View(PageTest),
   Vocabulary |-> View(PageVocabulary)]

(***************************************************************************)
(* Bounds                                                                  *)
(***************************************************************************)
\* Date.now() when the page is loaded, the step of the clock and the time the
\* clock stops at
StartClock == 1000

ClockStep == 50

MaxClock == 1600

\* the most pairs the database holds
MaxPairs == 3

(***************************************************************************)
(* State                                                                   *)
(***************************************************************************)
VARIABLES
  wordDatabase,        \* WocabeeState.wordDatabase
  reverseDatabase,     \* WocabeeState.reverseDatabase
  stats,               \* WocabeeState.stats (wordsIndexed, answersHelped)
  storage,             \* chrome.storage.local: the persisted database and stats
  loaded,              \* loadFromStorage of this page load has completed
  lastQuestion,        \* WocabeeObserver.lastQuestion
  isWaitingForResult,  \* WocabeeObserver.isWaitingForResult
  document,            \* the page the last pass of the tracker saw, by name
  pass,                \* what the last pass of the tracker started from and did
  e2e                  \* how far the run has followed the Katze/cat/Hund scenario

VARIABLES
  now,                  \* Date.now()
  body,                 \* the page in the browser, by name
  timers,               \* the pending timers of handleMutations, by due time
  debounceTimer,        \* WocabeeObserver.debounceTimer
  lastProcessedTime,    \* WocabeeObserver.lastProcessedTime
  lastContentLength,    \* WocabeeObserver.lastContentLength (undefined as 0)
  currentExerciseType,  \* WocabeeState.currentExerciseType
  log                   \* the last signal and the last runs of processChanges

\* what the caller of findTranslation has got, while the store is as it was at
\* the call
VARIABLE lastLookup

VARIABLES
  pendingSaves,         \* the calls of chrome.storage.local.set not yet settled
  saveFailed            \* the call that settled last was rejected

\* the tree findCurrentQuestion was last called on, and what it returned
VARIABLE scored

\* the text isUIText was last called on, and what it returned
VARIABLE uiText

\* the Clear DB action of the toolbar popup: how far its click handler is,
\* what storage held and which saves were pending when its removal resolved,
\* and the words the engine has added since
VARIABLE popupClear

VARIABLES
  settings,             \* WocabeeState.settings
  highlighted,          \* the options of the page that carry the highlight
  tooltips,             \* the tooltips and the hint the helper has appended
  autoTimers,           \* the pending timers of the auto-click, by due time
  lastWrite,            \* the last click or setInputValue of the helper
  lastHelp              \* what the last run of processExercise has put on the page

gateVars ==
  <<now, body, timers, debounceTimer, lastProcessedTime, lastContentLength,
    currentExerciseType, log>>

vars ==
  <<wordDatabase, reverseDatabase, stats, storage, loaded,
    lastQuestion, isWaitingForResult, document, pass, e2e,
    now, body, timers, debounceTimer, lastProcessedTime, lastContentLength,
    currentExerciseType, log, lastLookup,
    pendingSaves, saveFailed, scored, uiText, popupClear,
    settings, highlighted, tooltips, autoTimers, lastWrite, lastHelp>>

saveVars == <<pendingSaves, saveFailed>>

\* what the operations of the store, of the tracker and of the gate have no
\* part in
auxVars == <<scored, uiText, popupClear>>

helperVars == <<settings, highlighted, tooltips, autoTimers, lastWrite, lastHelp>>

\* WocabeeConfig.defaults, the setting the helper reads
DefaultSettings == [autoHighlight |-> TRUE, showHints |-> TRUE, autoAnswer |-> FALSE]

\* no run of processExercise yet
NoRun ==
  [ran |-> FALSE, highlighted |-> {}, tooltips |-> {}, hint |-> {},
   settings |-> DefaultSettings]

\* no tooltip on an option and no hint at the input
NoTooltips == [options |-> {}, hint |-> {}, hintText |-> <<>>]

\* no click and no setInputValue yet
NoWrite == [kind |-> "none", autoAnswer |-> FALSE]

\* no call of findCurrentQuestion yet
NoScore == [ran |-> FALSE, tree |-> <<>>, question |-> <<>>]

\* no call of isUIText yet
NoUIText == [asked |-> FALSE, text |-> <<>>, result |-> FALSE]

\* the Clear DB button of the popup was not clicked
NoClear ==
  [phase |-> "idle", before |-> {}, pending |-> 0, delivered |-> FALSE,
   added |-> {}]

storeVars ==
  <<wordDatabase, reverseDatabase, stats, storage, saveVars, auxVars, helperVars>>

trackerVars == <<lastQuestion, isWaitingForResult>>

passVars == <<document, pass, e2e>>

\* the store in memory
TheStore == Store(wordDatabase, reverseDatabase, stats)

\* lastQuestion: null
NoQuestion == <<>>

NoStorage == [present |-> FALSE, wordDatabase |-> <<>>, stats |-> Stats(0, 0)]

Persisted(doc) == [present |-> TRUE, wordDatabase |-> doc.wordDatabase, stats |-> doc.stats]

\* no pass of the tracker since the last operation on the store
NoPass ==
  [ran |-> FALSE, before |-> EmptyStore, lastQuestion |-> NoQuestion,
   isWaitingForResult |-> FALSE, calls |-> <<>>, adds |-> <<>>, events |-> <<>>,
   raised |-> FALSE]

\* no call of findTranslation since the store was last written
NoLookup == [asked |-> FALSE, word |-> <<>>, result |-> <<>>]

\* no signal and no run of processChanges yet
NoLog ==
  [signalAt |-> 0, burst |-> 0, burstRuns |-> 0,
   runAt |-> 0, admitted |-> FALSE, refused |-> FALSE, content |-> 0,
   prevAt |-> 0, prevLength |-> 0, admittedAt |-> 0, admittedLength |-> 0]

Init ==
  /\ wordDatabase = <<>>
  /\ reverseDatabase = <<>>
  /\ stats = Stats(0, 0)
  /\ storage = NoStorage
  /\ loaded = FALSE
  /\ lastQuestion = NoQuestion
  /\ isWaitingForResult = FALSE
  /\ document = "Blank"
  /\ pass = NoPass
  /\ e2e = 0
  /\ now = StartClock
  /\ body = "Blank"
  /\ timers = <<>>
  /\ debounceTimer = 0
  /\ lastProcessedTime = 0
  /\ lastContentLength = 0
  /\ currentExerciseType = "null"
  /\ log = NoLog
  /\ lastLookup = NoLookup
  /\ pendingSaves = <<>>
  /\ saveFailed = FALSE
  /\ scored = NoScore
  /\ uiText = NoUIText
  /\ popupClear = NoClear
  /\ settings = DefaultSettings
  /\ highlighted = {}
  /\ autoTimers = <<>>
  /\ lastWrite = NoWrite
  /\ lastHelp = NoRun
  /\ tooltips = NoTooltips

\* the handler leaves the store r.st and has handed the documents r.saves to
\* chrome.storage.local.set, which writes them in the order of the calls: the
\* last one is what storage holds once all of them have settled
Commit(r) ==
  /\ wordDatabase' = r.st.wordDatabase
  /\ reverseDatabase' = r.st.reverseDatabase
  /\ stats' = r.st.stats
  /\ storage' = IF r.saves = <<>> THEN storage
                ELSE Persisted(r.saves[Len(r.saves)])
  /\ lastLookup' = NoLookup
  /\ UNCHANGED <<saveVars, auxVars>>

WithinBounds(st) == Len(PairsOf(st.wordDatabase)) <= MaxPairs

(***************************************************************************)
(* The operations of the store                                             *)
(***************************************************************************)
\* WocabeeState.addWord(source, target), called once the engine is initialized
AddWord(source, target) ==
  LET r == addWord(TheStore, source, target)
  IN  /\ loaded
      /\ WithinBounds(r.st)
      /\ Commit(r)
      /\ UNCHANGED <<loaded, trackerVars, passVars, gateVars, helperVars>>

\* WocabeeState.addWords(wordPairs): indexVocabulary, which the URL-change
\* timer can run before loadFromStorage has completed
AddWords(wordPairs) ==
  LET r == addWords(TheStore, wordPairs)
  IN  /\ WithinBounds(r.st)
      /\ Commit(r)
      /\ UNCHANGED <<loaded, trackerVars, passVars, gateVars, helperVars>>

\* WocabeeState.clearDatabase(): the tracker keeps its question
ClearDatabase ==
  LET r == clearDatabase(TheStore)
  IN  /\ loaded
      /\ Commit(r)
      /\ pass' = NoPass
      /\ e2e' = IF e2e = 1 THEN 1 ELSE 0
      /\ UNCHANGED <<loaded, trackerVars, document, gateVars, helperVars>>

\* WocabeeState.importDatabase(jsonString)
ImportDatabase(jsonString) ==
  LET r == importDatabase(TheStore, jsonString)
  IN  /\ loaded
      /\ WithinBounds(r.st)
      /\ Commit(r)
      /\ UNCHANGED <<loaded, trackerVars, passVars, gateVars, helperVars>>

\* the read of loadFromStorage completes (WocabeeState.init)
LoadFromStorage ==
  LET st == loadFromStorage(TheStore, storage)
  IN  /\ ~loaded
      /\ loaded' = TRUE
      /\ wordDatabase' = st.wordDatabase
      /\ reverseDatabase' = st.reverseDatabase
      /\ stats' = st.stats
      /\ lastLookup' = NoLookup
      /\ UNCHANGED <<storage, saveVars, auxVars, helperVars, trackerVars, passVars,
                     gateVars>>

\* the page is loaded again: the scripts start from their initial objects
PageLoad ==
  /\ wordDatabase' = <<>>
  /\ reverseDatabase' = <<>>
  /\ stats' = Stats(0, 0)
  /\ loaded' = FALSE
  /\ lastQuestion' = NoQuestion
  /\ isWaitingForResult' = FALSE
  /\ document' = "Blank"
  /\ pass' = NoPass
  /\ e2e' = 0
  /\ body' = "Blank"
  /\ timers' = <<>>
  /\ debounceTimer' = 0
  /\ lastProcessedTime' = 0
  /\ lastContentLength' = 0
  /\ currentExerciseType' = "null"
  /\ log' = NoLog
  /\ lastLookup' = NoLookup
  /\ UNCHANGED <<storage, saveVars, auxVars, helperVars, now>>

\* WocabeeState.findTranslation(word), called once the engine is initialized
FindTranslation(word) ==
  /\ loaded
  /\ lastLookup' = [asked |-> TRUE, word |-> word,
               result |-> findTranslation(TheStore, word)]
  /\ UNCHANGED <<storeVars, loaded, trackerVars, passVars, gateVars>>

NextStore ==
  \/ \E p \in RawPairs : AddWord(p[1], p[2])
  \/ \E l \in RawPairLists : AddWords(l)
  \/ ClearDatabase
  \/ \E d \in ImportDocs : ImportDatabase(d)
  \/ LoadFromStorage
  \/ PageLoad

SpecStore == Init /\ [][NextStore]_vars

\* the lookups, in the databases that calls of addWord build
NextLookup ==
  \/ LoadFromStorage
  \/ \E p \in RawPairs : AddWord(p[1], p[2])
  \/ \E word \in Queries : FindTranslation(word)

SpecLookup == Init /\ [][NextLookup]_vars

(***************************************************************************)
(* The passes of the tracker                                               *)
(***************************************************************************)
\* the scenario: 1 once a pass has found "Katze" on a page without feedback
\* while the database has no entry for it, 2 once a later pass has seen the
\* correct feedback with "cat" in the answer input, 3 once a pass after that
\* has found "Hund"; 0 when the run leaves the scenario
Scenario(dom) ==
  LET found     == dom.findCurrentQuestion
      correct   == dom.correctFeedback # 0
      incorrect == dom.incorrectFeedback # 0
      holdsCat  == dom.inputValue = W_cat
      sameQuestion == found \in {NoQuestion, W_Katze}
  IN  CASE e2e = 0 ->
             IF /\ found = W_Katze /\ lastQuestion # W_Katze
                /\ ~correct /\ ~incorrect
                /\ ~Has(wordDatabase, normalizeWord(W_Katze))
               THEN 1 ELSE 0
        [] e2e = 1 ->
             IF sameQuestion /\ correct /\ holdsCat THEN 2
             ELSE IF sameQuestion /\ ~correct /\ ~incorrect THEN 1
             ELSE 0
        [] e2e = 2 ->
             IF found = W_Hund THEN 3 ELSE IF sameQuestion THEN 2 ELSE 0
        [] e2e = 3 ->
             IF found \in {NoQuestion, W_Hund} THEN 3 ELSE 0

\* a pass of the tracker over the page as it is now: processChanges calls
\* checkForFeedbackAndLearn once the engine is initialized
Pass(page, dom, t) ==
  /\ loaded
  /\ WithinBounds(t.st)
  /\ Commit(t)
  /\ lastQuestion' = t.lastQuestion
  /\ isWaitingForResult' = t.isWaitingForResult
  /\ document' = page
  /\ pass' = [ran |-> TRUE, before |-> TheStore,
              lastQuestion |-> lastQuestion,
              isWaitingForResult |-> isWaitingForResult,
              calls |-> t.calls, adds |-> t.adds, events |-> t.events,
              raised |-> t.raised]
  /\ e2e' = Scenario(dom)
  /\ UNCHANGED <<loaded, helperVars>>

\* a pass the gate has no part in
TrackerPass(page, dom, t) ==
  /\ Pass(page, dom, t)
  /\ UNCHANGED gateVars

PassOver(page, dom) ==
  TrackerPass(page, dom,
       checkForFeedbackAndLearn(TheStore, lastQuestion, isWaitingForResult, dom))

CheckForFeedbackAndLearn(page) == PassOver(page, DomOf[page])

Next ==
  \/ \E page \in DOMAIN Pages : CheckForFeedbackAndLearn(page)
  \/ ClearDatabase
  \/ LoadFromStorage
  \/ PageLoad

Spec == Init /\ [][Next]_vars

(***************************************************************************)
(* The gate: change signals, the clock and the debounce timer              *)
(***************************************************************************)
\* the log after a change signal: a signal less than the quiet period after
\* the last one goes on with its burst, any other begins a burst
Signalled(l, t) ==
  IF l.signalAt # 0 /\ t - l.signalAt < observerDebounce
    THEN [l EXCEPT !.signalAt = t, !.burst = Min({@ + 1, 3})]
    ELSE [l EXCEPT !.signalAt = t, !.burst = 1, !.burstRuns = 0]

\* the log after a run of processChanges
Ran(l, t, currentContent, admitted) ==
  [l EXCEPT !.runAt = t, !.admitted = admitted,
            !.refused = @ \/ ~admitted,
            !.content = currentContent,
            !.burstRuns = Min({@ + 1, 2}),
            !.prevAt = l.admittedAt, !.prevLength = l.admittedLength,
            !.admittedAt = IF admitted THEN t ELSE @,
            !.admittedLength = IF admitted THEN currentContent ELSE @]

\* the page changes and the MutationObserver calls handleMutations
Signal(h, page) ==
  /\ loaded
  /\ body' = page
  /\ timers' = h.timers
  /\ debounceTimer' = h.debounceTimer
  /\ log' = Signalled(log, now)
  /\ UNCHANGED <<storeVars, loaded, trackerVars, passVars, now,
                 lastProcessedTime, lastContentLength, currentExerciseType, lastLookup>>

HandleMutations(page) == Signal(handleMutations(timers, debounceTimer, now), page)

\* time passes
Tick ==
  /\ now < MaxClock
  /\ now' = now + ClockStep
  /\ UNCHANGED <<storeVars, loaded, trackerVars, passVars, body, timers,
                 debounceTimer, lastProcessedTime, lastContentLength,
                 currentExerciseType, log, lastLookup>>

\* the first pending timer is due and runs processChanges on the page in the
\* browser
TimerFires(page, g, view, t) ==
  /\ page = body
  /\ timers # <<>>
  /\ now >= Head(timers)
  /\ timers' = Tail(timers)
  /\ lastProcessedTime' = g.lastProcessedTime
  /\ lastContentLength' = g.lastContentLength
  /\ log' = Ran(log, now, view.length, g.admitted)
  /\ IF g.admitted
       THEN /\ Pass(page, view.dom, t)
            /\ currentExerciseType' = view.type
       ELSE UNCHANGED <<storeVars, loaded, trackerVars, passVars,
                        currentExerciseType, lastLookup>>
  /\ UNCHANGED <<now, body, debounceTimer>>

ProcessChangesOf(page, view) ==
  TimerFires(page,
             processChanges(lastProcessedTime, lastContentLength, now, view.length),
             view,
             admittedPass(TheStore, lastQuestion, isWaitingForResult,
                          currentExerciseType, view))

ProcessChanges(page) == ProcessChangesOf(page, ViewOf[page])

NextGate ==
  \/ LoadFromStorage
  \/ \E page \in DOMAIN ViewOf : HandleMutations(page)
  \/ Tick
  \/ \E page \in DOMAIN ViewOf : ProcessChanges(page)

SpecGate == Init /\ [][NextGate]_vars

(***************************************************************************)
(* Properties of the store, checked under SpecStore                        *)
(***************************************************************************)
\* the pairs addWord accepts
ValidPairs == {p \in RawPairs : ~rejectsPair(p[1], p[2])}

\* w is equal to its own trim + lowercase + whitespace-collapse
Normalized(w) == w = CollapseWhitespace(ToLowerCase(Trim(w)))

\* C1: after any sequence of load, add, addMany, clear and importAll the
\* reverse index is exactly the inversion of the primary mapping: t is in the
\* primary list of s if and only if s is in the reverse list of t.
C1_ReverseIsInversion ==
  PairSet(reverseDatabase) = {<<p[2], p[1]>> : p \in PairSet(wordDatabase)}

\* a database of several pairs, one target listing two sources, as
\* loadFromStorage has rebuilt it from the persisted document
C1_Witness ==
  /\ loaded
  /\ storage.present
  /\ storage.wordDatabase = JsonStringify(wordDatabase)
  /\ reverseDatabase = rebuildReverseDatabase(wordDatabase)
  /\ \E i \in DOMAIN reverseDatabase : Len(reverseDatabase[i].v) >= 2
  /\ \E i \in DOMAIN wordDatabase : Len(wordDatabase[i].v) >= 2

\* C7 as the specification states it: for every valid pair (a, b) and every
\* prior store, right after add(a, b) lookup(a) includes normalize(b) and
\* lookup(b) includes normalize(a).
C7_LookupBothWays ==
  \A p \in ValidPairs :
    LET after == addWord(TheStore, p[1], p[2]).st
    IN  /\ Contains(findTranslation(after, p[1]), normalizeWord(p[2]))
        /\ Contains(findTranslation(after, p[2]), normalizeWord(p[1]))

\* C7, amended: for every valid pair (a, b) and every prior store, right after
\* add(a, b) lookup(a) includes normalize(b), and lookup(b) includes
\* normalize(a) unless normalize(b) is itself a source of the primary
\* mapping, whose list lookup(b) then returns.
C7_LookupBothWaysUnlessSource ==
  \A p \in ValidPairs :
    LET after == addWord(TheStore, p[1], p[2]).st
    IN  /\ Contains(findTranslation(after, p[1]), normalizeWord(p[2]))
        /\ \/ Has(after.wordDatabase, normalizeWord(p[2]))
           \/ Contains(findTranslation(after, p[2]), normalizeWord(p[1]))
        /\ Has(after.wordDatabase, normalizeWord(p[2]))
             => findTranslation(after, p[2])
                  = Get(after.wordDatabase, normalizeWord(p[2])).v

\* Katze -> cat has been added to a database that knew another pair: cat is
\* no source, and lookup(cat) answers from the reverse index
C7_Witness ==
  /\ Len(wordDatabase) >= 2
  /\ Has(wordDatabase, normalizeWord(W_Katze))
  /\ ~Has(wordDatabase, normalizeWord(W_cat))
  /\ Contains(findTranslation(TheStore, W_Katze), normalizeWord(W_cat))
  /\ Contains(findTranslation(TheStore, W_cat), normalizeWord(W_Katze))

\* C8: repeated add is idempotent: for a valid pair (a, b) that is not yet
\* stored the first add(a, b) returns true, and a second add(a, b) returns
\* false and leaves the primary mapping, the reverse index and wordsIndexed
\* unchanged.
C8_AddIdempotent ==
  \A p \in ValidPairs :
    LET first  == addWord(TheStore, p[1], p[2])
        second == addWord(first.st, p[1], p[2])
    IN  <<normalizeWord(p[1]), normalizeWord(p[2])>> \notin PairSet(wordDatabase)
          => /\ first.ret = TRUE
             /\ second.ret = FALSE
             /\ second.st.wordDatabase = first.st.wordDatabase
             /\ second.st.reverseDatabase = first.st.reverseDatabase
             /\ second.st.stats.wordsIndexed = first.st.stats.wordsIndexed
             /\ second.saves = <<>>

\* a database that holds one target of Katze and takes a second one: the
\* first add extends the list of a known source, the second changes nothing
C8_Witness ==
  /\ loaded
  /\ Has(wordDatabase, normalizeWord(W_Katze))
  /\ <<normalizeWord(W_Katze), normalizeWord(W_Hund)>> \notin PairSet(wordDatabase)
  /\ addWord(TheStore, W_Katze, W_Hund).ret = TRUE
  /\ addWord(addWord(TheStore, W_Katze, W_Hund).st, W_Katze, W_Hund).ret = FALSE
  /\ stats.wordsIndexed >= 1

\* C9: export/import round-trips: for every store reachable from the empty one
\* importAll(exportAll()) applied to an empty store gives the same key set
\* with the same set of targets per key, and applied to the store the
\* document came from it changes nothing.
C9_ExportImportRoundTrip ==
  LET doc   == exportDatabase(TheStore)
      fresh == importDatabase(EmptyStore, doc)
      again == importDatabase(TheStore, doc)
  IN  /\ Keys(fresh.st.wordDatabase) = Keys(wordDatabase)
      /\ PairSet(fresh.st.wordDatabase) = PairSet(wordDatabase)
      /\ fresh.ret = Cardinality(PairSet(wordDatabase))
      /\ again.st = TheStore
      /\ again.ret = 0
      /\ again.saves = <<>>

\* a database of two sources, one of them with two targets, whose exported
\* document an empty store imports in full
C9_Witness ==
  /\ Len(wordDatabase) >= 2
  /\ \E i \in DOMAIN wordDatabase : Len(wordDatabase[i].v) >= 2
  /\ importDatabase(EmptyStore, exportDatabase(TheStore)).ret >= 3
  /\ importDatabase(EmptyStore, exportDatabase(TheStore)).st.wordDatabase = wordDatabase

Seen == DomOf[document]

\* the question the pass tracks once it has looked for one: a question found
\* on the page, else the one tracked before
Tracked ==
  IF Seen.findCurrentQuestion # <<>> THEN Seen.findCurrentQuestion
  ELSE pass.lastQuestion

\* the tracker is AwaitingResult(Tracked) when the pass checks the feedback:
\* it has just found a new question, or it was waiting before
Awaiting ==
  /\ pass.ran
  /\ Tracked # NoQuestion
  /\ \/ /\ Seen.findCurrentQuestion # <<>>
        /\ Seen.findCurrentQuestion # pass.lastQuestion
     \/ pass.isWaitingForResult

\* the narrower case: the tracker was AwaitingResult(Tracked) before the pass
\* began, and the pass has found no other question
WasAwaiting ==
  /\ pass.ran
  /\ pass.isWaitingForResult
  /\ pass.lastQuestion # NoQuestion
  /\ Tracked = pass.lastQuestion

\* the one addWord call of a pass that has extracted the answer
TheAdd(answer) == addWord(pass.before, Tracked, answer)

LearnEvent(type, answer) == [type |-> type, question |-> Tracked, answer |-> answer]

\* C2 as the specification states it: while AwaitingResult(q), a pass that
\* sees the correct feedback and gets a non-empty answer a from
\* findCorrectAnswer commits add(q, a), emits a learn event of kind correct
\* and leaves the tracker Idle.
C2_CorrectFeedbackLearns ==
  (WasAwaiting /\ Seen.correctFeedback # 0 /\ Seen.findCorrectAnswer # <<>>)
    => /\ pass.adds = <<[source |-> Tracked, target |-> Seen.findCorrectAnswer,
                         ret |-> TheAdd(Seen.findCorrectAnswer).ret]>>
       /\ TheStore = TheAdd(Seen.findCorrectAnswer).st
       /\ pass.events = <<LearnEvent("correct", Seen.findCorrectAnswer)>>
       /\ ~isWaitingForResult

\* C2, amended: while AwaitingResult(q), a pass that sees the correct feedback
\* and gets a non-empty answer a from findCorrectAnswer calls add(q, a) once,
\* emits a learn event of kind correct exactly when that add returned true
\* (the pair is valid and new), and leaves the tracker Idle.
C2_CorrectFeedbackLearnsWhenAdded ==
  (Awaiting /\ Seen.correctFeedback # 0 /\ Seen.findCorrectAnswer # <<>>)
    => /\ pass.adds = <<[source |-> Tracked, target |-> Seen.findCorrectAnswer,
                         ret |-> TheAdd(Seen.findCorrectAnswer).ret]>>
       /\ TheStore = TheAdd(Seen.findCorrectAnswer).st
       /\ pass.events = IF TheAdd(Seen.findCorrectAnswer).ret
                          THEN <<LearnEvent("correct", Seen.findCorrectAnswer)>>
                          ELSE <<>>
       /\ ~isWaitingForResult
       /\ lastQuestion = Tracked

\* a pass that was waiting for Katze has seen the correct feedback with cat
\* typed, added the pair and shown the notification
C2_Witness ==
  /\ Awaiting
  /\ pass.lastQuestion = W_Katze /\ pass.isWaitingForResult
  /\ Seen.correctFeedback # 0
  /\ Seen.findCorrectAnswer = W_cat
  /\ pass.events = <<LearnEvent("correct", W_cat)>>
  /\ Contains(findTranslation(TheStore, W_Katze), W_cat)
  /\ ~isWaitingForResult

\* C3: the incorrect-feedback path is an else of the correct-feedback path:
\* a pass calls at most one of findCorrectAnswer and findRevealedAnswer and
\* commits at most one pair, also on a page that shows both kinds of
\* feedback; findRevealedAnswer runs only when there is no correct feedback,
\* and then a non-empty answer goes to add, is notified as a correction and
\* leaves the tracker Idle.
C3_IncorrectPathIsElse ==
  pass.ran =>
    /\ Len(pass.calls) <= 1
    /\ Len(pass.adds) <= 1
    /\ Seen.correctFeedback # 0 => ~Contains(pass.calls, "findRevealedAnswer")
    /\ Contains(pass.calls, "findRevealedAnswer")
         => /\ Awaiting
            /\ Seen.incorrectFeedback # 0
            /\ ~isWaitingForResult
            /\ \A i \in DOMAIN pass.events : pass.events[i].type = "correction"
            /\ Seen.findRevealedAnswer # <<>>
                 => /\ pass.adds = <<[source |-> Tracked,
                                      target |-> Seen.findRevealedAnswer,
                                      ret |-> TheAdd(Seen.findRevealedAnswer).ret]>>
                    /\ TheStore = TheAdd(Seen.findRevealedAnswer).st
                    /\ TheAdd(Seen.findRevealedAnswer).ret
                         => pass.events
                              = <<LearnEvent("correction", Seen.findRevealedAnswer)>>
    /\ (Awaiting /\ Seen.correctFeedback # 0)
         => pass.calls = <<"findCorrectAnswer">>
    /\ (Awaiting /\ Seen.correctFeedback = 0 /\ Seen.incorrectFeedback # 0)
         => pass.calls = <<"findRevealedAnswer">>

\* a pass over the page that shows both kinds of feedback has taken the
\* answer from the correct path alone
C3_Witness ==
  /\ Awaiting
  /\ Seen.correctFeedback # 0
  /\ Seen.incorrectFeedback # 0
  /\ Seen.findRevealedAnswer # <<>>
  /\ Seen.findRevealedAnswer # Seen.findCorrectAnswer
  /\ pass.calls = <<"findCorrectAnswer">>
  /\ Len(pass.adds) = 1 /\ pass.adds[1].ret
  /\ pass.adds[1].target = Seen.findCorrectAnswer

\* C4: while AwaitingResult(q), a pass in which a feedback signal is present
\* but the extractor returns no answer leaves the tracker as it is (still
\* AwaitingResult(q)) and the store as it is, so that a later pass can still
\* learn q.
C4_NoAnswerLeavesTrackerWaiting ==
  (/\ WasAwaiting
   /\ \/ Seen.correctFeedback # 0 /\ Seen.findCorrectAnswer = <<>>
      \/ /\ Seen.correctFeedback = 0 /\ Seen.incorrectFeedback # 0
         /\ Seen.findRevealedAnswer = <<>>)
    => /\ lastQuestion = Tracked
       /\ isWaitingForResult
       /\ TheStore = pass.before

\* a pass that was waiting for Katze has seen feedback without an answer
C4_Witness ==
  /\ Awaiting
  /\ pass.lastQuestion = W_Katze /\ pass.isWaitingForResult
  /\ Seen.correctFeedback # 0 /\ Seen.findCorrectAnswer = <<>>
  /\ lastQuestion = W_Katze

\* C5: at most one question is tracked: when the scorer yields a question
\* that differs from the tracked one, the tracker becomes
\* AwaitingResult(newQuestion) and the unresolved one is dropped; every pair a
\* pass commits has the question tracked in that pass as its source, so no
\* later pass commits a pair for the dropped question.
C5_OneQuestionTracked ==
  pass.ran =>
    /\ lastQuestion = Tracked
    /\ \A i \in DOMAIN pass.adds : pass.adds[i].source = Tracked
    /\ (Seen.findCurrentQuestion # <<>> /\ Seen.findCurrentQuestion # pass.lastQuestion)
         => /\ lastQuestion = Seen.findCurrentQuestion
            /\ isWaitingForResult \/ pass.calls # <<>>
            /\ \A i \in DOMAIN pass.adds : pass.adds[i].source # pass.lastQuestion

\* a pass that was waiting for Katze has found Hund with feedback on the
\* page, and has committed the answer for Hund
C5_Witness ==
  /\ pass.ran
  /\ pass.lastQuestion = W_Katze /\ pass.isWaitingForResult
  /\ Seen.findCurrentQuestion = W_Hund
  /\ lastQuestion = W_Hund
  /\ Len(pass.adds) = 1 /\ pass.adds[1].ret
  /\ ~Has(wordDatabase, normalizeWord(W_Katze))
  /\ Has(wordDatabase, normalizeWord(W_Hund))

\* C6: end to end: once a pass has found Katze and a later pass has seen the
\* correct feedback with cat in the answer input, lookup(Katze) is exactly
\* [cat] and the tracker is Idle; once a pass after that has found Hund, Hund
\* is the only question that can be pending, and no further pair with the
\* source katze has been committed.
C6_EndToEnd ==
  /\ e2e = 2 => /\ findTranslation(TheStore, W_Katze) = <<W_cat>>
                /\ lastQuestion = W_Katze
                /\ ~isWaitingForResult
  /\ e2e = 3 => /\ findTranslation(TheStore, W_Katze) = <<W_cat>>
                /\ lastQuestion = W_Hund
                /\ \A i \in DOMAIN pass.adds :
                     normalizeWord(pass.adds[i].source) # normalizeWord(W_Katze)

\* the run has gone through the three steps, and Hund is pending
C6_Witness ==
  /\ e2e = 3
  /\ isWaitingForResult
  /\ lastQuestion = W_Hund
  /\ wordDatabase = <<Entry(normalizeWord(W_Katze), <<W_cat>>, TRUE)>>

(***************************************************************************)
(* Properties of the store, continued (checked under SpecStore)            *)
(***************************************************************************)
\* the validation predicate as the specification words it, on normalized
\* words: the sides differ, neither is a pure-digit token or a numeral of ten
\* or more digits, and each has two alphabetic characters or more
PureDigits(w) == w # <<>> /\ \A i \in DOMAIN w : w[i] \in Digits

Alphabetic(w) == {i \in DOMAIN w : w[i] \in Letters}

PairValid(s, t) ==
  /\ s # t
  /\ ~PureDigits(s) /\ ~PureDigits(t)
  /\ ~(Len(s) >= 10 /\ PureDigits(s)) /\ ~(Len(t) >= 10 /\ PureDigits(t))
  /\ Cardinality(Alphabetic(s)) >= 2 /\ Cardinality(Alphabetic(t)) >= 2

\* C11: after any sequence of add, addMany, importAll and clear from the empty
\* store every stored pair satisfies the validation predicate, and add returns
\* false and changes nothing for a pair that violates it.
C11_StoredPairsValid ==
  /\ \A p \in PairSet(wordDatabase) : PairValid(p[1], p[2])
  /\ \A p \in RawPairs :
       (/\ IsString(p[1]) /\ IsString(p[2])
        /\ ~PairValid(normalizeWord(p[1]), normalizeWord(p[2])))
         => addWord(TheStore, p[1], p[2]) = Outcome(TheStore, FALSE, <<>>)

\* a store of several pairs that has been offered the pairs the predicate
\* excludes (equal sides, digits, one letter) and has refused them
C11_Witness ==
  /\ Cardinality(PairSet(wordDatabase)) >= 2
  /\ ~PairValid(normalizeWord(W_Katze), normalizeWord(W_Katze))
  /\ ~PairValid(normalizeWord(W_12), normalizeWord(W_cat))
  /\ ~PairValid(normalizeWord(W_Katze), normalizeWord(W_x))
  /\ addWord(TheStore, W_Katze, W_Katze).ret = FALSE
  /\ addWord(TheStore, W_12, W_cat).ret = FALSE
  /\ addWord(TheStore, W_Katze, W_x).ret = FALSE

\* s contains the phrase
HasPhrase(s, phrase) ==
  \E i \in 1..(Len(s) + 1) : \E j \in (i - 1)..Len(s) : SubSeq(s, i, j) = phrase

\* the word matches the list isUIText applies, by exact match or containment
MatchesUIList(w) ==
  \E i \in DOMAIN uiPatterns : w = uiPatterns[i] \/ HasPhrase(w, uiPatterns[i])

\* the ten phrases of the store's own list
StorePhrases ==
  { <<"l","e","a","r","n","i","n","g"," ","m","o","d","e">>, <<"w","o","c","a","b","e","e">>, <<"s","e","z","n","a","m">>,
    <<"b","a","l","i_acute","k","u_ring">>, <<"s","e","t","t","i","n","g","s">>, <<"m","e","n","u">>, <<"n","e","x","t">>,
    <<"b","a","c","k">>, <<"i","n","d","e","x","e","d">>, <<"w","o","r","d","s"," ","k","n","o","w","n">> }

\* C12 as the specification states it: no pair is ever stored whose source or
\* target matches the rejection list isUIText applies, whether it arrives
\* through the tracker, through addWords or through importDatabase.
C12_NoUITextStored ==
  \A p \in PairSet(wordDatabase) : ~MatchesUIList(p[1]) /\ ~MatchesUIList(p[2])

\* C12, amended: no pair is ever stored whose source or target contains a
\* phrase of the store's own list of ten UI phrases, whichever way the pair
\* arrives; that list is part of the list isUIText applies.
C12_NoStorePhraseStored ==
  /\ \A p \in PairSet(wordDatabase) :
       \A phrase \in StorePhrases :
         ~HasPhrase(p[1], phrase) /\ ~HasPhrase(p[2], phrase)
  /\ \A phrase \in StorePhrases : MatchesUIList(phrase)

\* "next page" has been refused by a store that holds hund -> answer, a word
\* isUIText rejects and the store's list does not have
C12_Witness ==
  /\ wordDatabase # <<>>
  /\ <<normalizeWord(W_Hund), normalizeWord(W_answer)>> \in PairSet(wordDatabase)
  /\ MatchesUIList(normalizeWord(W_answer))
  /\ addWord(TheStore, W_NextPage, W_cat).ret = FALSE
  /\ HasPhrase(normalizeWord(W_NextPage), <<"n","e","x","t">>)

\* the sequence has no element twice
Distinct(seq) == \A i, j \in DOMAIN seq : seq[i] = seq[j] => i = j

\* the target list of a key, empty for a key the mapping does not have
TargetsOf(db, key) == IF Has(db, key) THEN Get(db, key).v ELSE <<>>

IsPrefix(short, long) ==
  Len(short) <= Len(long) /\ SubSeq(long, 1, Len(short)) = short

\* C13: in every reachable store each key's target list has no duplicates and
\* keeps the order of insertion: a successful add appends the target at the
\* end of its key's list and leaves every other target where it was; so do
\* the adds of addMany and importAll.
C13_TargetsDistinctInOrder ==
  /\ \A i \in DOMAIN wordDatabase : Distinct(wordDatabase[i].v)
  /\ \A p \in ValidPairs :
       LET r == addWord(TheStore, p[1], p[2])
           s == normalizeWord(p[1])
       IN  r.ret =>
             /\ TargetsOf(r.st.wordDatabase, s)
                  = Append(TargetsOf(wordDatabase, s), normalizeWord(p[2]))
             /\ \A i \in DOMAIN wordDatabase :
                  /\ r.st.wordDatabase[i].k = wordDatabase[i].k
                  /\ wordDatabase[i].k # s
                       => r.st.wordDatabase[i].v = wordDatabase[i].v
  /\ \A l \in RawPairLists : \A i \in DOMAIN wordDatabase :
       IsPrefix(wordDatabase[i].v,
                TargetsOf(addWords(TheStore, l).st.wordDatabase, wordDatabase[i].k))
  /\ \A d \in ImportDocs : \A i \in DOMAIN wordDatabase :
       IsPrefix(wordDatabase[i].v,
                TargetsOf(importDatabase(TheStore, d).st.wordDatabase, wordDatabase[i].k))

\* katze lists cat and hund in the order they were added, and a third target
\* goes to the end of the list
C13_Witness ==
  /\ TargetsOf(wordDatabase, normalizeWord(W_Katze))
       = <<normalizeWord(W_cat), normalizeWord(W_Hund)>>
  /\ addWord(TheStore, W_Katze, W_answer).ret
  /\ TargetsOf(addWord(TheStore, W_Katze, W_answer).st.wordDatabase, normalizeWord(W_Katze))
       = <<normalizeWord(W_cat), normalizeWord(W_Hund), normalizeWord(W_answer)>>

(***************************************************************************)
(* The gate                                                                *)
(***************************************************************************)
\* C14: the gate is a trailing debounce of one slot.  At most one timer is
\* pending, and it is the one the last change signal set, due one quiet
\* period after that signal; a burst of signals less than the quiet period
\* apart runs processChanges at most once, with no timer left pending, and
\* not before one quiet period after the last signal of the burst.
C14_SingleSlotTrailingDebounce ==
  /\ Len(timers) <= 1
  /\ timers # <<>> =>
       /\ timers[1] = log.signalAt + observerDebounce
       /\ debounceTimer = timers[1]
  /\ log.burstRuns <= 1
  /\ log.burstRuns = 1 =>
       /\ timers = <<>>
       /\ log.runAt >= log.signalAt + observerDebounce

\* three signals or more in one burst, and processChanges has run after them
C14_Witness ==
  /\ log.burst = 3
  /\ log.burstRuns = 1
  /\ log.runAt = log.signalAt + observerDebounce

\* a step that runs processChanges
RunStep == timers # <<>> /\ timers' = Tail(timers)

\* the last run of processChanges went on to the classifier and the tracker:
\* it is MinProcessSpacing or more after the admitted pass before it, if there
\* is one, and the text is MinContentChange or more longer or shorter than at
\* that pass (than 0 if there is none)
AdmittedPassGated ==
  log.admitted =>
    /\ log.prevAt # 0 => log.runAt - log.prevAt >= MinProcessSpacing
    /\ Abs(log.content - log.prevLength) >= MinContentChange

\* a run that one of the gates refuses leaves the store, the tracker and the
\* current exercise type as they are and records no pass of the tracker
RefusedPassIdle ==
  RunStep /\ ~log'.admitted =>
    UNCHANGED <<storeVars, trackerVars, passVars, currentExerciseType>>

\* C15: every admitted pass is 500 ms or more after the admitted pass before
\* it and sees a text whose length differs by 10 or more from the length at
\* that pass (0 before the first); a pass that fails a gate runs neither the
\* classifier nor the tracker and changes neither the store nor the tracker.
C15_AdmittedPassesGated == []AdmittedPassGated /\ [][RefusedPassIdle]_vars

\* a second admitted pass, after a run the gates refused
C15_Witness ==
  /\ log.admitted
  /\ log.prevAt # 0
  /\ log.refused
  /\ pass.ran

(***************************************************************************)
(* The classifier                                                          *)
(***************************************************************************)
\* the modes in the order of their priority
Modes == <<"selection", "typing", "game", "test", "vocabulary">>

\* the condition of each mode on a tree
ModeHolds(tree) ==
  [selection  |-> Cardinality({i \in DOMAIN tree :
                     \E k \in DOMAIN findAnswerOptions(tree) :
                        findAnswerOptions(tree)[k] = i}) >= 2,
   typing     |-> \E i \in DOMAIN tree : i = findAnswerInput(tree),
   game       |-> \E i \in DOMAIN tree, k \in DOMAIN gameContainerSelectors :
                     Matches(tree[i], gameContainerSelectors[k]),
   test       |-> \E i \in DOMAIN tree, k \in DOMAIN testContainerSelectors :
                     Matches(tree[i], testContainerSelectors[k]),
   vocabulary |-> Len(extractWordPairs(tree)) > 0]

\* the first mode whose condition holds, "null" when none holds
FirstMode(tree) ==
  LET holds == ModeHolds(tree)
      first == {k \in DOMAIN Modes :
                  holds[Modes[k]] /\ \A j \in 1..(k - 1) : ~holds[Modes[j]]}
  IN  IF first = {} THEN "null" ELSE Modes[CHOOSE k \in first : TRUE]

FirstModeOf ==
  [Blank |-> FirstMode(PageBlank), Katze |-> FirstMode(PageKatze),
   KatzeCorrect |-> FirstMode(PageKatzeCorrect),
   HundSelectionInput |-> FirstMode(PageHundSelectionInput),
   KatzeOneOption |-> FirstMode(PageKatzeOneOption),
   Game |-> FirstMode(PageGame), Test |-> FirstMode(PageTest),
   Vocabulary |-> FirstMode(PageVocabulary),
   GameVocabulary |-> FirstMode(PageGameVocabulary)]

\* the classifier returns the first mode on every page
ClassifiedByFirstMode ==
  \A p \in DOMAIN ClassifyPages :
     detectExerciseType(ClassifyPages[p]) = FirstModeOf[p]

\* two options and an input make a selection
StrayInputIsSelection ==
  \A p \in DOMAIN ClassifyPages :
     ModeHolds(ClassifyPages[p]).selection /\ ModeHolds(ClassifyPages[p]).typing
       => detectExerciseType(ClassifyPages[p]) = "selection"

\* C16: detectExerciseType returns the first of selection, typing, game,
\* test, vocabulary whose condition holds on the tree and null when none
\* holds; a tree with two answer options or more is a selection also when it
\* has an input for text.  The type an admitted pass leaves as the current
\* one is the first mode of the page it has seen.
C16_FirstModeWins ==
  /\ ClassifiedByFirstMode
  /\ StrayInputIsSelection
  /\ pass.ran => currentExerciseType = FirstModeOf[document]

\* an admitted pass has classified the selection page that has an input
C16_Witness ==
  /\ pass.ran
  /\ document = "HundSelectionInput"
  /\ currentExerciseType = "selection"
  /\ ModeHolds(PageHundSelectionInput).typing

(***************************************************************************)
(* The lookup                                                              *)
(***************************************************************************)
Elements(seq) == {seq[i] : i \in DOMAIN seq}

\* the key contains the word or is contained in it, letter case aside
KeyMatches(k, w) ==
  \/ Includes(ToLowerCase(k), ToLowerCase(w))
  \/ Includes(ToLowerCase(w), ToLowerCase(k))

\* the values of every entry of the two maps whose key matches the word
PartialUnion(w) ==
  UNION { Elements(wordDatabase[i].v) :
            i \in {j \in DOMAIN wordDatabase : KeyMatches(wordDatabase[j].k, w)} }
  \cup
  UNION { Elements(reverseDatabase[i].v) :
            i \in {j \in DOMAIN reverseDatabase : KeyMatches(reverseDatabase[j].k, w)} }

\* what the last call of findTranslation returned, against the store it was
\* made on: the targets of the normalized word when it is a key of the
\* database; else its sources when it is a key of the reverse index; else the
\* values of the partial matches, nothing when there is none
LookupInOrder ==
  lastLookup.asked =>
    LET w == normalizeWord(lastLookup.word)
    IN  IF \E i \in DOMAIN wordDatabase : wordDatabase[i].k = w
          THEN \E i \in DOMAIN wordDatabase :
                  /\ wordDatabase[i].k = w
                  /\ lastLookup.result = wordDatabase[i].v
        ELSE IF \E i \in DOMAIN reverseDatabase : reverseDatabase[i].k = w
          THEN \E i \in DOMAIN reverseDatabase :
                  /\ reverseDatabase[i].k = w
                  /\ lastLookup.result = reverseDatabase[i].v
        ELSE /\ Elements(lastLookup.result) = PartialUnion(w)
             /\ PartialUnion(w) = {} => lastLookup.result = <<>>

\* a call of findTranslation leaves the database, the reverse index, the
\* counters and the storage as they are
LookupKeepsStore ==
  lastLookup'.asked => UNCHANGED <<wordDatabase, reverseDatabase, stats, storage>>

\* C17: findTranslation resolves in strict order: the target list of the
\* normalized word when it is a primary key, else its source list when it is
\* a reverse key, and only otherwise the partial matches, empty when nothing
\* matches; it never changes the database, the reverse index or the counters.
C17_LookupOrderAndFrame == []LookupInOrder /\ [][LookupKeepsStore]_vars

\* a word that is a primary key and a reverse key has been looked up and
\* answered with its targets, which are not its sources
C17_Witness ==
  /\ lastLookup.asked
  /\ \E i \in DOMAIN wordDatabase, j \in DOMAIN reverseDatabase :
        /\ wordDatabase[i].k = normalizeWord(lastLookup.word)
        /\ reverseDatabase[j].k = normalizeWord(lastLookup.word)
        /\ lastLookup.result = wordDatabase[i].v
        /\ lastLookup.result # reverseDatabase[j].v

\* findPartialMatch on the current store
PartialMatchOf(q) == findPartialMatch(TheStore, normalizeWord(q))

\* C18: the partial match of a word is the union, every value once, of the
\* value lists of every primary key and every reverse key that contains the
\* word or is contained in it; with only "Katze" -> ["cat"] stored,
\* findTranslation("Katz") returns exactly ["cat"].
C18_PartialMatchIsUnion ==
  /\ \A q \in Queries :
       /\ Distinct(PartialMatchOf(q))
       /\ Elements(PartialMatchOf(q)) = PartialUnion(normalizeWord(q))
  /\ /\ lastLookup.asked
     /\ lastLookup.word = W_Katz
     /\ wordDatabase = <<Entry(normalizeWord(W_Katze), <<W_cat>>, TRUE)>>
     => lastLookup.result = <<W_cat>>

\* "Katz" has been looked up in the store that holds only katze -> [cat]
C18_Witness ==
  /\ lastLookup.asked
  /\ lastLookup.word = W_Katz
  /\ wordDatabase = <<Entry(normalizeWord(W_Katze), <<W_cat>>, TRUE)>>
  /\ reverseDatabase = <<Entry(W_cat, <<normalizeWord(W_Katze)>>, TRUE)>>
  /\ lastLookup.result = <<W_cat>>

(***************************************************************************)
(* The tracker and the clearing of the database                            *)
(***************************************************************************)
\* the tracker was AwaitingResult(q) before the last pass, and the pass has
\* seen neither a feedback signal nor another question: it is still
\* AwaitingResult(q), whether the scorer has found q again or nothing
AwaitingKept ==
  (WasAwaiting /\ Seen.correctFeedback = 0 /\ Seen.incorrectFeedback = 0)
    => /\ isWaitingForResult
       /\ lastQuestion = pass.lastQuestion
       /\ pass.adds = <<>>

\* a step of clearDatabase: it leaves the database empty and has the empty
\* database written to the storage
ClearStep ==
  /\ loaded /\ loaded'
  /\ ~pass'.ran
  /\ wordDatabase' = <<>>
  /\ storage' = Persisted(saveToStorage(EmptyStore))

\* the tracker is Idle after the clear
ClearResetsTracker ==
  ClearStep => lastQuestion' = NoQuestion /\ ~isWaitingForResult'

\* C19: without a feedback signal and without a differing question the
\* tracker stays AwaitingResult(q) over any number of passes, also when the
\* scorer finds nothing; a clear of the database resets it to Idle, so that
\* feedback seen after the clear does not commit the question from before.
C19_AwaitingUntilFeedbackOrReset == []AwaitingKept /\ [][ClearResetsTracker]_vars

\* the database has been cleared and the tracker still waits for the result
\* of the question it had before
C19_Witness ==
  /\ loaded
  /\ ~pass.ran
  /\ wordDatabase = <<>>
  /\ storage = Persisted(saveToStorage(EmptyStore))
  /\ isWaitingForResult
  /\ lastQuestion = W_Katze

(***************************************************************************)
(* A second pass over the same page                                        *)
(***************************************************************************)
\* a pass over the page the pass before it has seen, with nothing between
\* the two
RePass == pass.ran /\ pass'.ran /\ document' = document

\* the second pass leaves the tracker and the store as the first has left
\* them, calls addWord no more and shows no notification
RePassChangesNothing ==
  RePass =>
    /\ UNCHANGED <<lastQuestion, isWaitingForResult>>
    /\ UNCHANGED <<wordDatabase, reverseDatabase, stats, storage>>
    /\ pass'.adds = <<>>
    /\ pass'.events = <<>>

\* C20: a pass of the tracker is idempotent on an unchanged tree: a second
\* checkForFeedbackAndLearn against the same tree changes neither the state
\* of the tracker nor the store and emits no other learn event.
C20_PassIdempotent == [][RePassChangesNothing]_vars

\* a pass over a page with the feedback and the answer that began with the
\* tracker and the store as a pass over that page leaves them: the pair of
\* the page is in the database, the tracker is Idle with the question of the
\* page, and the pass has added nothing
C20_Witness ==
  /\ pass.ran
  /\ Seen.findCurrentQuestion # <<>>
  /\ Seen.correctFeedback # 0
  /\ Seen.findCorrectAnswer # <<>>
  /\ pass.lastQuestion = Seen.findCurrentQuestion
  /\ ~pass.isWaitingForResult
  /\ pass.before = TheStore
  /\ Contains(TargetsOf(wordDatabase, normalizeWord(lastQuestion)),
              normalizeWord(Seen.findCorrectAnswer))
  /\ pass.adds = <<>>
  /\ pass.events = <<>>
  /\ ~isWaitingForResult

(***************************************************************************)
(* The order of the strategies of the answer extractors                    *)
(***************************************************************************)
\* the first text of the sequence that is not empty, empty when all are
FirstNonEmpty(texts) ==
  LET full == {k \in DOMAIN texts : texts[k] # <<>>}
  IN  IF full = {} THEN <<>> ELSE texts[CHOOSE k \in full : \A j \in full : k <= j]

\* what each strategy of findCorrectAnswer yields on a tree, in its order:
\* the trimmed value of the input, the text of the highlighted correct node,
\* the text of the active node when isUIText accepts it, the success text
\* without the feedback phrases when 1 to 99 characters remain
CorrectStrategies(tree) ==
  LET input       == findAnswerInput(tree)
      highlightedCorrect == find(tree, highlightedCorrectSelectors, 0)
      active      == find(tree, activeAnswerSelectors, 0)
      successEl   == find(tree, correctFeedbackSelectors, 0)
      filtered    == Trim(StripFeedbackPhrases(getText(tree, successEl)))
  IN  << IF input = 0 THEN <<>> ELSE Trim(tree[input].value),
         getText(tree, highlightedCorrect),
         IF isUIText(ToLowerCase(getText(tree, active))) THEN <<>>
         ELSE getText(tree, active),
         IF successEl # 0 /\ Len(filtered) < 100 THEN filtered ELSE <<>> >>

\* what each strategy of findRevealedAnswer yields: the text of the revealed
\* node, of the correct option that is not selected, the group of the first
\* phrase that matches the error text, the text of the first option that is
\* marked correct
RevealedStrategies(tree) ==
  LET revealed      == find(tree, revealedAnswerSelectors, 0)
      correctOption == find(tree, correctOptionSelectors, 0)
      errorEl       == find(tree, incorrectFeedbackSelectors, 0)
      phrase        == phraseFrom(getText(tree, errorEl), 1)
      marked        == SelectSeq(findAnswerOptions(tree),
                                 LAMBDA opt : MarkedCorrect(tree, opt))
  IN  << getText(tree, revealed),
         getText(tree, correctOption),
         IF errorEl # 0 /\ phrase.matched THEN phrase.answer ELSE <<>>,
         IF marked = <<>> THEN <<>> ELSE getText(tree, marked[1]) >>

\* C21: each answer extractor returns what the first strategy of its order
\* yields that is not empty; a strategy whose node is there with an empty
\* text does not end the search, and the result is empty only when every
\* strategy yields nothing.
C21_FirstNonEmptyStrategyWins ==
  pass.ran =>
    /\ Seen.findCorrectAnswer = FirstNonEmpty(CorrectStrategies(Pages[document]))
    /\ Seen.findRevealedAnswer = FirstNonEmpty(RevealedStrategies(Pages[document]))

\* the tracker waited for Katze, the pass has seen the correct feedback that
\* tells "cat" beside a marked option without text, and has learned nothing
C21_Witness ==
  /\ WasAwaiting
  /\ document = "KatzeEmptyHighlight"
  /\ Seen.correctFeedback # 0
  /\ CorrectStrategies(Pages[document])[2] = <<>>
  /\ CorrectStrategies(Pages[document])[4] = W_cat
  /\ Seen.findCorrectAnswer = <<>>
  /\ pass.adds = <<>>
  /\ ~isWaitingForResult

(***************************************************************************)
(* Import of a document, checked under SpecStore                           *)
(***************************************************************************)
\* the (source, target) entries of a document that parses, an array value
\* giving one entry for each of its items
EntriesOf(jsonString) ==
  LET pairs == PairsOf(JsonParse(jsonString).entries)
  IN  {<<pairs[i].k, pairs[i].x>> : i \in DOMAIN pairs}

\* the normalized pairs of the entries addWord does not reject
AcceptedOf(jsonString) ==
  {<<normalizeWord(p[1]), normalizeWord(p[2])>> :
     p \in {q \in EntriesOf(jsonString) : ~rejectsPair(q[1], q[2])}}

\* C22: importDatabase hands every entry of the document to addWord and
\* returns the number of adds that succeeded: an entry addWord rejects is
\* skipped and the entries after it are still added; for a text that does
\* not parse it returns 0 and leaves the store and the storage as they are.
C22_ImportAddsEveryEntry ==
  \A d \in ImportDocs :
    LET r   == importDatabase(TheStore, d)
        new == AcceptedOf(d) \ PairSet(wordDatabase)
    IN  IF ~JsonParse(d).ok
          THEN r.ret = 0 /\ r.st = TheStore /\ r.saves = <<>>
          ELSE /\ r.ret = Cardinality(new)
               /\ PairSet(r.st.wordDatabase) = PairSet(wordDatabase) \cup AcceptedOf(d)
               /\ r.st.stats.wordsIndexed = stats.wordsIndexed + r.ret
               /\ Len(r.saves) = r.ret

\* the database holds what the import of the mixed document leaves of it (the
\* number 4 skipped, "CAT" and the scalar "cat" added, 2 returned) beside
\* another word, and the broken document changes nothing
C22_Witness ==
  /\ loaded
  /\ Len(wordDatabase) >= 1
  /\ \E q \in EntriesOf(MixedDoc) : rejectsPair(q[1], q[2])
  /\ importDatabase(EmptyStore, MixedDoc).ret = 2
  /\ PairSet(importDatabase(EmptyStore, MixedDoc).st.wordDatabase) \subseteq PairSet(wordDatabase)
  /\ storage.present
  /\ storage.wordDatabase = JsonStringify(wordDatabase)
  /\ ~JsonParse(BrokenDoc).ok
  /\ importDatabase(TheStore, BrokenDoc).st = TheStore

(***************************************************************************)
(* The engine started on a persisted document it has not written itself    *)
(***************************************************************************)
\* persisted word databases: an exported one, one whose values are a string
\* and a number instead of arrays, and a text that is no JSON
ScalarDoc ==
  << Tok("{", <<>>), Tok("key", <<"k","a","t","z","e">>), Tok("val", W_cat),
     Tok("key", <<"h","u","n","d">>), Tok("val", JsNumber(<<"4">>)), Tok("}", <<>>) >>

PersistedDocs == {ExportedDoc2, ScalarDoc, BrokenDoc}

\* the state after construction, with one of the documents in storage
InitPersisted ==
  /\ wordDatabase = <<>>
  /\ reverseDatabase = <<>>
  /\ stats = Stats(0, 0)
  /\ storage \in {Persisted([wordDatabase |-> d, stats |-> Stats(1, 0)]) :
                    d \in PersistedDocs}
  /\ loaded = FALSE
  /\ lastQuestion = NoQuestion
  /\ isWaitingForResult = FALSE
  /\ document = "Blank"
  /\ pass = NoPass
  /\ e2e = 0
  /\ now = StartClock
  /\ body = "Blank"
  /\ timers = <<>>
  /\ debounceTimer = 0
  /\ lastProcessedTime = 0
  /\ lastContentLength = 0
  /\ currentExerciseType = "null"
  /\ log = NoLog
  /\ lastLookup = NoLookup
  /\ pendingSaves = <<>>
  /\ saveFailed = FALSE
  /\ scored = NoScore
  /\ uiText = NoUIText
  /\ popupClear = NoClear
  /\ settings = DefaultSettings
  /\ highlighted = {}
  /\ autoTimers = <<>>
  /\ lastWrite = NoWrite
  /\ lastHelp = NoRun
  /\ tooltips = NoTooltips

\* the pages the passes see and the pairs addWord is called with
PersistedPages == {"Katze", "KatzeCorrect", "Hund", "HundCorrect", "HundSolution"}

PersistedPairs ==
  {<<W_Katze, W_cat>>, <<W_Katze, W_Hund>>, <<W_Hund, W_cat>>, <<W_12, W_cat>>}

NextPersisted ==
  \/ LoadFromStorage
  \/ \E page \in PersistedPages : CheckForFeedbackAndLearn(page)
  \/ \E p \in PersistedPairs : AddWord(p[1], p[2])
  \/ \E l \in RawPairLists : AddWords(l)
  \/ \E d \in ImportDocs : ImportDatabase(d)
  \/ ClearDatabase
  \/ PageLoad

SpecPersisted == InitPersisted /\ [][NextPersisted]_vars

\* C23: no pass of the tracker raises to its caller: on every tree and in
\* every store that loadFromStorage of a parseable persisted document,
\* addWord, addWords, importDatabase and clearDatabase lead to,
\* checkForFeedbackAndLearn and the addWord it calls complete.
C23_PassNeverRaises == pass.ran => ~pass.raised

\* the database was loaded from a document whose value for "katze" is the
\* string "cat"; the tracker waited for Katze, the pass has seen the correct
\* feedback with another answer than "cat" and addWord has thrown in it: the
\* tracker still waits and nothing was added
C23_Witness ==
  /\ pass.ran
  /\ pass.raised
  /\ WasAwaiting
  /\ Has(pass.before.wordDatabase, normalizeWord(Tracked))
  /\ ~Get(pass.before.wordDatabase, normalizeWord(Tracked)).arr
  /\ Seen.correctFeedback # 0
  /\ Seen.findCorrectAnswer # <<>>
  /\ pass.adds = <<>>
  /\ isWaitingForResult
  /\ TheStore = pass.before

(***************************************************************************)
(* The saves.  saveToStorage is async: it builds the document when it is   *)
(* called and awaits chrome.storage.local.set; addWord calls it without    *)
(* await, and no caller of clearDatabase awaits clearDatabase.  The calls  *)
(* settle later, in the order they were made; a rejected one is logged.    *)
(***************************************************************************)
MaxPending == 2

\* the handler leaves the store r.st and returns while the calls of
\* chrome.storage.local.set it has made are pending
Issue(r) ==
  /\ wordDatabase' = r.st.wordDatabase
  /\ reverseDatabase' = r.st.reverseDatabase
  /\ stats' = r.st.stats
  /\ pendingSaves' = pendingSaves \o r.saves
  /\ lastLookup' = NoLookup
  /\ UNCHANGED <<storage, saveFailed, auxVars>>

\* WocabeeState.addWord(source, target) returns
AddWordUnawaited(source, target) ==
  LET r == addWord(TheStore, source, target)
  IN  /\ loaded
      /\ WithinBounds(r.st)
      /\ Len(pendingSaves) + Len(r.saves) <= MaxPending
      /\ Issue(r)
      /\ UNCHANGED <<loaded, trackerVars, passVars, gateVars, helperVars>>

\* WocabeeState.clearDatabase() has cleared the store and awaits the save;
\* the click handler and the message handler that called it go on
ClearDatabaseUnawaited ==
  LET r == clearDatabase(TheStore)
  IN  /\ loaded
      /\ Len(pendingSaves) + Len(r.saves) <= MaxPending
      /\ Issue(r)
      /\ pass' = NoPass
      /\ e2e' = IF e2e = 1 THEN 1 ELSE 0
      /\ UNCHANGED <<loaded, trackerVars, document, gateVars, helperVars>>

\* the oldest pending chrome.storage.local.set resolves: storage holds its
\* document
SaveResolved ==
  /\ pendingSaves # <<>>
  /\ storage' = Persisted(Head(pendingSaves))
  /\ pendingSaves' = Tail(pendingSaves)
  /\ saveFailed' = FALSE
  /\ UNCHANGED <<wordDatabase, reverseDatabase, stats, loaded, trackerVars,
                 passVars, gateVars, lastLookup, auxVars, helperVars>>

\* the oldest pending chrome.storage.local.set rejects: saveToStorage catches
\* the error and logs it
SaveRejected ==
  /\ pendingSaves # <<>>
  /\ pendingSaves' = Tail(pendingSaves)
  /\ saveFailed' = TRUE
  /\ UNCHANGED <<wordDatabase, reverseDatabase, stats, storage, loaded,
                 trackerVars, passVars, gateVars, lastLookup, auxVars, helperVars>>

\* the pairs addWord is called with here: three it adds and one it rejects
SavePairs ==
  {<<W_Katze, W_cat>>, <<W_Katze, W_Hund>>, <<W_Hund, W_cat>>, <<W_12, W_cat>>}

NextSave ==
  \/ LoadFromStorage
  \/ \E p \in SavePairs : AddWordUnawaited(p[1], p[2])
  \/ ClearDatabaseUnawaited
  \/ SaveResolved
  \/ SaveRejected

SpecSave == Init /\ [][NextSave]_vars

\* the primary mapping chrome.storage.local holds, none being the empty one
PersistedMapping ==
  IF storage.present THEN JsonParse(storage.wordDatabase).entries ELSE <<>>

\* a step that changes the store or makes a save: one save is added to the
\* pending ones, it carries the database and the counters as the step leaves
\* them, and storage is not yet written
SaveIssued ==
  (TheStore' # TheStore \/ Len(pendingSaves') > Len(pendingSaves)) =>
    /\ pendingSaves' = Append(pendingSaves,
                              [wordDatabase |-> JsonStringify(wordDatabase'),
                               stats |-> stats'])
    /\ storage' = storage

\* a step that settles a save leaves the store as it is; storage changes
\* only when the save has resolved
SaveSettled ==
  Len(pendingSaves') < Len(pendingSaves) =>
    /\ TheStore' = TheStore
    /\ pendingSaves' = Tail(pendingSaves)
    /\ storage' = IF saveFailed' THEN storage ELSE Persisted(Head(pendingSaves))

Unparseable == storage.present /\ ~JsonParse(storage.wordDatabase).ok

\* the read of loadFromStorage completes on a document that does not parse:
\* the engine is initialized, the store is the empty one it was created as,
\* storage is left alone, and addWord adds every valid pair to it
LoadOfUnparseable ==
  (~loaded /\ loaded' /\ Unparseable) =>
    /\ wordDatabase' = <<>>
    /\ reverseDatabase' = <<>>
    /\ stats' = Stats(0, 0)
    /\ storage' = storage
    /\ \A p \in PersistedPairs :
         LET r == addWord(TheStore', p[1], p[2])
         IN  /\ ~r.raised
             /\ r.ret = ~rejectsPair(p[1], p[2])
             /\ r.ret => PairSet(r.st.wordDatabase) =
                           {<<normalizeWord(p[1]), normalizeWord(p[2])>>}

\* C25: a persisted word database that does not parse is treated as absent:
\* loadFromStorage raises nothing, the store starts with an empty database
\* and an empty reverse database, the engine is initialized and addWord
\* adds to it.
C25_UnparseableIsAbsent ==
  /\ [][LoadOfUnparseable]_vars
  /\ [](Unparseable => wordDatabase = <<>> /\ reverseDatabase = <<>>)

\* the engine is initialized on the document that is no JSON: the store is
\* empty and takes Katze -> cat
C25_Witness ==
  /\ loaded
  /\ Unparseable
  /\ storage.wordDatabase = BrokenDoc
  /\ TheStore = EmptyStore
  /\ addWord(TheStore, W_Katze, W_cat).ret
  /\ Has(addWord(TheStore, W_Katze, W_cat).st.reverseDatabase, W_cat)

\* the words of the store: its sources and its targets
WordsOf(st) ==
  Keys(st.wordDatabase) \cup Keys(st.reverseDatabase)

\* what clearDatabase makes of the store as it is now
Cleared == clearDatabase(TheStore)

\* the document of an empty database with both counters at 0
EmptyDocument == [wordDatabase |-> <<Tok("{", <<>>), Tok("}", <<>>)>>, stats |-> Stats(0, 0)]

\* a step of the initialized engine that empties a database that was not
\* empty leaves both maps empty and both counters 0, and storage holds the
\* empty document
EmptyingStep ==
  (loaded /\ loaded' /\ wordDatabase # <<>> /\ wordDatabase' = <<>>) =>
    /\ reverseDatabase' = <<>>
    /\ stats' = Stats(0, 0)
    /\ storage' = Persisted(EmptyDocument)

\* C26: clearDatabase empties the database and the reverse database, resets
\* wordsIndexed and answersHelped to 0 and saves the empty state; after it
\* findTranslation of any word returns nothing and getStats reports zero
\* words and zero translations.
C26_ClearEmptiesStore ==
  /\ [][EmptyingStep]_vars
  /\ [](/\ Cleared.st.wordDatabase = <<>>
        /\ Cleared.st.reverseDatabase = <<>>
        /\ Cleared.st.stats = Stats(0, 0)
        /\ Cleared.saves = <<EmptyDocument>>
        /\ \A word \in Queries \cup WordsOf(TheStore) :
             findTranslation(Cleared.st, word) = <<>>
        /\ getStats(Cleared.st).totalWords = 0
        /\ getStats(Cleared.st).totalTranslations = 0
        /\ getStats(Cleared.st).wordsIndexed = 0
        /\ getStats(Cleared.st).answersHelped = 0)

\* the database has been cleared: storage holds the empty document, which
\* only clearDatabase saves, and the store is empty
C26_Witness ==
  /\ loaded
  /\ storage = Persisted(EmptyDocument)
  /\ TheStore = EmptyStore
  /\ findTranslation(TheStore, W_Katze) = <<>>
  /\ getStats(TheStore).totalWords = 0

(***************************************************************************)
(* The scorer on trees without a prominent element                         *)
(***************************************************************************)
\* an element no prominent selector matches
Plain(tag, cls, text, fontSize, top) ==
  [El(tag, cls, text) EXCEPT !.fontSize = fontSize, !.top = top]

\* the elements of the trees: four that score 32 (by the upper half of the
\* viewport, by the font size, by the class), one that scores 40, a heading
\* that scores 24, one that is not visible and one whose text isUIText
\* rejects
ScoreElements ==
  { Plain("p", <<>>, W_Katze, 16, 100),
    Plain("p", <<>>, W_Hund, 16, 100),
    Plain("div", <<>>, W_cat, 32, 400),
    Plain("span", <<"v","o","c","a","b","u","l","a","r","y">>, W_dog, 16, 400),
    Plain("p", <<>>, W_answer, 20, 100),
    Plain("h4", <<>>, W_HotDog, 16, 400),
    [Plain("p", <<>>, W_CAT, 64, 100) EXCEPT !.width = 0],
    Plain("p", <<>>, <<"n","e","x","t">>, 64, 100) }

MaxScored == 3

ScoreTrees ==
  UNION {[1..n -> ScoreElements] : n \in 1..MaxScored}

\* WocabeeDom.findCurrentQuestion() on a tree, and again on the tree as it is
Scored(tree, question) ==
  /\ scored.ran => scored.tree = tree
  /\ scored' = [ran |-> TRUE, tree |-> tree, question |-> question]
  /\ UNCHANGED <<wordDatabase, reverseDatabase, stats, storage, saveVars,
                 loaded, trackerVars, passVars, gateVars, lastLookup, uiText,
                 popupClear, helperVars>>

FindCurrentQuestion(tree) == Scored(tree, findCurrentQuestion(tree))

NextScore == \E tree \in ScoreTrees : FindCurrentQuestion(tree)

SpecScore == Init /\ [][NextScore]_vars

\* the score of the element at position i, as the source computes it
ScoreAt(tree, i) == Score2(tree[i]) \div 2

\* the candidates of the highest score
TopScored(tree) ==
  LET cands == {ScoringCandidates(tree)[k] : k \in DOMAIN ScoringCandidates(tree)}
  IN  {i \in cands : \A j \in cands : Score2(tree[j]) <= Score2(tree[i])}

\* C27: in the global scoring strategy the element of the highest score
\* wins, and among the elements of the same highest score the one that comes
\* first in the order of the traversal is returned, on every run on the tree.
C27_FirstOfTopScoreWins ==
  (scored.ran /\ prominentFrom(scored.tree, 1) = 0 /\ TopScored(scored.tree) # {}) =>
    /\ scored.question = getText(scored.tree, Min(TopScored(scored.tree)))
    /\ scored.question = findCurrentQuestion(scored.tree)

\* a tree of three elements none of which is prominent: a heading of a lower
\* score first, then two elements of the same highest score with different
\* texts; the text of the first of the two was returned
C27_Witness ==
  /\ scored.ran
  /\ Len(scored.tree) = 3
  /\ prominentFrom(scored.tree, 1) = 0
  /\ TopScored(scored.tree) = {2, 3}
  /\ ScoreAt(scored.tree, 2) = 32
  /\ ScoreAt(scored.tree, 1) < ScoreAt(scored.tree, 2)
  /\ scored.tree[2].text # scored.tree[3].text
  /\ scored.tree[2].fontSize # scored.tree[3].fontSize
  /\ scored.question = scored.tree[2].text

(***************************************************************************)
(* isUIText on texts                                                       *)
(***************************************************************************)
MaxText == 3

\* the texts of the examples, texts that hold a phrase of the list, and every
\* text of up to MaxText characters over a digit, two letters that make "ok",
\* another letter and the blank
TextAlphabet == {"1", "o", "k", "a", " "}

RejectedExamples ==
  { <<"1","2","3","4","5","6">>, <<"1","7","0","0","0","0","0","0","0","0","0","0","0">>, <<"O","K">>, <<"n","e","x","t">>,
    <<"s","p","r","a_acute","v","n","e_caron">> }

AcceptedExamples ==
  { <<"H","a","u","s">>, <<"d","u_ring","m">>, <<"m","a","g","n","i","f","i","q","u","e">> }

UITexts ==
  RejectedExamples \cup AcceptedExamples
    \cup {W_NextPage, W_Timestamp, W_HotDog, W_KatzePadded, <<"B","o","o","k">>, <<"a","1","b","2">>, <<"a","1","b","2","2">>}
    \cup UNION {[1..n -> TextAlphabet] : n \in 0..MaxText}

\* WocabeeDom.isUIText(text)
Asked(text, result) ==
  /\ uiText' = [asked |-> TRUE, text |-> text, result |-> result]
  /\ UNCHANGED <<wordDatabase, reverseDatabase, stats, storage, saveVars,
                 loaded, trackerVars, passVars, gateVars, lastLookup, scored,
                 popupClear, helperVars>>

IsUIText(text) == Asked(text, isUIText(text))

NextUIText == \E text \in UITexts : IsUIText(text)

SpecUIText == Init /\ [][NextUIText]_vars

\* the four conditions of the claim, on the text as it is given: the phrases
\* of the list are looked for in the trimmed text without regard to case
RejectedInGeneral(text) ==
  \/ PureDigits(Trim(text))
  \/ Cardinality(Alphabetic(text)) < 2
  \/ CountIn(text, Digits) > Cardinality(Alphabetic(text))
  \/ MatchesUIList(Trim(ToLowerCase(text)))

\* C28: isUIText is true for "123456", "1700000000000", "OK", "next" and
\* "spravne" with its accents, false for "Haus", "dum" with its ring and
\* "magnifique"; in general it is true exactly when the text is pure digits,
\* has fewer than 2 letters, has more digits than letters, or equals or
\* contains a phrase of the rejection list.
C28_IsUITextRejectsExactly ==
  uiText.asked =>
    /\ uiText.result = RejectedInGeneral(uiText.text)
    /\ uiText.text \in RejectedExamples => uiText.result
    /\ uiText.text \in AcceptedExamples => ~uiText.result

\* isUIText was called on "OK", which is on the list in lower case, and has
\* returned true
C28_Witness ==
  /\ uiText.asked
  /\ uiText.text = <<"O","K">>
  /\ uiText.text \in RejectedExamples
  /\ uiText.result
  /\ ~PureDigits(uiText.text)
  /\ Cardinality(Alphabetic(uiText.text)) = 2

(***************************************************************************)
(* The helper (main.js).  The site's elements of a page are a tree; the    *)
(* classes and the tooltips the helper adds to them are kept in highlighted *)
(* and tooltips, and Rendered gives the document with them.                *)
(***************************************************************************)
\* WocabeeConfig.timing.autoAnswerDelay
autoAnswerDelay == 500

\* translations.join(sep)
RECURSIVE Join(_, _)
Join(texts, sep) ==
  IF texts = <<>> THEN <<>>
  ELSE IF Len(texts) = 1 THEN texts[1]
  ELSE texts[1] \o sep \o Join(Tail(texts), sep)

RECURSIVE Repeat(_, _)
Repeat(x, n) == IF n = 0 THEN <<>> ELSE <<x>> \o Repeat(x, n - 1)

\* what a run of the helper does (the options it gives a tooltip and the
\* input it gives a hint are set by the handlers): whether clearHighlights
\* ran, the options
\* it highlights, the timers of the clicks it sets, whether it sets the
\* value of the input, and what it adds to answersHelped
Help(cleared, marked, clicks, setInput, helped) ==
  [cleared |-> cleared, highlighted |-> marked, clicks |-> clicks,
   setInput |-> setInput, helped |-> helped, tooltips |-> {}, hint |-> {},
   hintText |-> <<>>]

NoHelp == Help(FALSE, {}, <<>>, FALSE, 0)

\* translations.some(...) of handleSelectionExercise
isCorrect(optionText, translations) ==
  \E k \in DOMAIN translations :
    LET translation == ToLowerCase(translations[k])
    IN  \/ optionText = translation
        \/ Includes(optionText, translation)
        \/ Includes(translation, optionText)

\* the options handleSelectionExercise finds correct
CorrectOptions(tree, translations) ==
  SelectSeq(findAnswerOptions(tree),
            LAMBDA i : isCorrect(ToLowerCase(getText(tree, i)), translations))

\* handleSelectionExercise(translations): every correct option is
\* highlighted, and a click on it is set for the time t + autoAnswerDelay
\* when autoAnswer is set
handleSelectionExercise(tree, translations, autoAnswer, t) ==
  LET correct == CorrectOptions(tree, translations)
  IN  [Help(TRUE, Range(correct),
            IF autoAnswer THEN Repeat(t + autoAnswerDelay, Len(correct)) ELSE <<>>,
            FALSE,
            IF correct # <<>> THEN 1 ELSE 0)
       EXCEPT !.tooltips = Range(correct)]

\* handleTypingExercise(translations)
handleTypingExercise(tree, translations, autoAnswer) ==
  IF findAnswerInput(tree) = 0 THEN Help(TRUE, {}, <<>>, FALSE, 0)
  ELSE [Help(TRUE, {}, <<>>, autoAnswer, IF autoAnswer THEN 1 ELSE 0)
        EXCEPT !.hint = {findAnswerInput(tree)},
               !.hintText = Join(translations, <<" ", "/", " ">>)]

\* handleGameExercise(translations)
handleGameExercise(tree, translations) ==
  Help(TRUE,
       Range(SelectSeq(findAnswerOptions(tree),
                       LAMBDA i :
                         \E k \in DOMAIN translations :
                           \/ Includes(ToLowerCase(getText(tree, i)),
                                       ToLowerCase(translations[k]))
                           \/ Includes(ToLowerCase(translations[k]),
                                       ToLowerCase(getText(tree, i))))),
       <<>>, FALSE, 0)

\* processExercise() on the store st at the time t
processExercise(st, autoAnswer, tree, t) ==
  LET type         == detectExerciseType(tree)
      question     == findCurrentQuestion(tree)
      translations == findTranslation(st, question)
  IN  IF type = "null" THEN NoHelp
      ELSE IF question = <<>> \/ translations = <<>> THEN Help(TRUE, {}, <<>>, FALSE, 0)
      ELSE IF type = "selection"
        THEN handleSelectionExercise(tree, translations, autoAnswer, t)
      ELSE IF type = "typing"
        THEN handleTypingExercise(tree, translations, autoAnswer)
      ELSE IF type \in {"game", "test"} THEN handleGameExercise(tree, translations)
      ELSE Help(TRUE, {}, <<>>, FALSE, 0)

\* WocabeeHelper.init() at the time t: the store WocabeeState.init() loads
\* from the storage stg, and what processExercise does on it
init(st, stg, autoAnswer, tree, t) ==
  [st |-> loadFromStorage(st, stg),
   h  |-> processExercise(loadFromStorage(st, stg), autoAnswer, tree, t)]

\* onExerciseChange(type), the part of the helper: clearHighlights, then
\* processExercise for an exercise
helperOnExerciseChange(type, h) ==
  IF type \in {"selection", "typing", "game", "test"}
    THEN [h EXCEPT !.cleared = TRUE]
    ELSE Help(TRUE, {}, <<>>, FALSE, 0)

\* processChanges after its gates at the time t, tr being what the tracker
\* leaves: the tracker and indexVocabulary leave t, the helper does h
admittedHelp(tr, current, view, autoAnswer, tree, t) ==
  [t |-> exerciseChange(tr, current, view),
   h |-> IF ~tr.raised /\ view.type # current
           THEN helperOnExerciseChange(view.type,
                  processExercise(tr.st, autoAnswer, tree, t))
           ELSE NoHelp]

(***************************************************************************)
(* Inputs: the pages the helper is driven with                             *)
(***************************************************************************)
\* a selection exercise
PageKatzeOptions ==
  <<H1(W_Katze), Button(<<"o","p","t","i","o","n">>, W_cat), Button(<<"o","p","t","i","o","n">>, W_dog)>>

\* the next question of the exercise, with a line of text below it
PageHundOptions ==
  <<H1(W_Hund), Button(<<"o","p","t","i","o","n">>, W_cat), Button(<<"o","p","t","i","o","n">>, W_dog),
    Div(<<>>, <<"F","r","a","g","e"," ","z","w","e","i"," ","v","o","n"," ","z","e","h","n">>)>>

HelperPages ==
  [Blank |-> PageBlank, KatzeOptions |-> PageKatzeOptions,
   HundOptions |-> PageHundOptions, Katze |-> PageKatze]

HelperViewOf ==
  [Blank |-> View(PageBlank), KatzeOptions |-> View(PageKatzeOptions),
   HundOptions |-> View(PageHundOptions), Katze |-> View(PageKatze)]

\* the vocabulary indexVocabulary has found before the exercises
HelperPairs == << <<W_Katze, W_cat>>, <<W_Hund, W_dog>> >>

(***************************************************************************)
(* The document with what the helper has added to it (dom.js)              *)
(***************************************************************************)
\* the check mark of the tooltip and the two code units of the light bulb
CheckMark == "U+2713"

LightBulb == <<"U+D83D", "U+DCA1">>

\* the text of the tooltip of handleSelectionExercise
TooltipText == <<CheckMark>> \o <<" ","C","o","r","r","e","c","t","!">>

\* element.classList.add(c)
classListAdd(n, c) ==
  IF HasClass(n, c) THEN n
  ELSE [n EXCEPT !.cls = IF @ = <<>> THEN c ELSE @ \o <<" ">> \o c]

\* the last element of the tree inside parent, parent itself when it has
\* none; the document is parent 0
LastInside(tree, parent) ==
  IF parent = 0 THEN Len(tree)
  ELSE Max({parent} \cup {j \in DOMAIN tree : IsInside(tree, j, parent)})

\* the elements of the tree from the k-th on, with child placed after the
\* element at: the parent of child gains a child and its text, and the
\* references to the elements after child move by one
RECURSIVE Placed(_, _, _, _, _)
Placed(tree, parent, child, at, k) ==
  IF k > Len(tree) THEN <<>>
  ELSE LET n == IF k = parent
                  THEN [tree[k] EXCEPT !.children = @ + 1,
                                       !.text = @ \o child.text]
                  ELSE [tree[k] EXCEPT !.parent = IF @ > at THEN @ + 1 ELSE @]
       IN  <<n>> \o (IF k = at THEN <<child>> ELSE <<>>)
               \o Placed(tree, parent, child, at, k + 1)

\* parent.appendChild(child): the child comes after the last descendant of
\* parent, and its text is part of the textContent of parent
appendChild(tree, parent, child) ==
  IF tree = <<>> THEN <<[child EXCEPT !.parent = parent]>>
  ELSE CHOOSE placed \in {Placed(t, parent, c, LastInside(t, parent), 1) :
                            t \in {tree}, c \in {[child EXCEPT !.parent = parent]}} :
         TRUE

\* highlightCorrect(option)
highlightCorrect(tree, option) ==
  [tree EXCEPT ![option] = classListAdd(classListAdd(@, <<"w","h","-","h","i","g","h","l","i","g","h","t","e","d">>),
                                        <<"w","h","-","c","o","r","r","e","c","t">>)]

\* addTooltip(option, text)
addTooltip(tree, option, text) ==
  [appendChild(tree, option, El("div", <<"w","h","-","t","o","o","l","t","i","p">>, text))
   EXCEPT ![option] = classListAdd(@, <<"w","h","-","h","i","n","t">>)]

\* showInputHint(input, hintText): a div with the light bulb and the hint
\* in a strong element, appended to the parent of the input
showInputHint(tree, input, hintText) ==
  LET parent == tree[input].parent
      hint == [El("div", <<"w","h","-","t","o","o","l","t","i","p"," ","w","h","-","h","i","n","t">>, LightBulb \o <<" ">>)
               EXCEPT !.children = 0]
      withHint == appendChild(tree, parent, hint)
  IN  appendChild(withHint, LastInside(tree, parent) + 1,
                  El("strong", <<>>, hintText))

\* the options from the last one down to the first, so that an element
\* appended to one leaves the places of the ones still to come
RECURSIVE MarkOptions(_, _, _, _)
MarkOptions(tree, marked, tips, k) ==
  IF k = 0 THEN tree
  ELSE CHOOSE rest \in
         {MarkOptions(IF k \in tips THEN addTooltip(lit, k, TooltipText) ELSE lit,
                      marked, tips, k - 1) :
            lit \in {IF k \in marked THEN highlightCorrect(tree, k) ELSE tree}} :
         TRUE

\* the document of a page after the helper has highlighted the options
\* marked and appended the tooltips and the hint tips
Rendered(tree, marked, tips) ==
  LET options == MarkOptions(tree, marked, tips.options, Len(tree))
  IN  IF tips.hint = {} THEN options
      ELSE showInputHint(options, CHOOSE i \in tips.hint : TRUE, tips.hintText)

\* the length of the texts the tooltips and the hint add to the body
tooltipsLength(tips) ==
  Cardinality(tips.options) * Len(TooltipText)
    + (IF tips.hint = {} THEN 0 ELSE Len(LightBulb) + 1 + Len(tips.hintText))

\* what a pass reads of a page the helper has written to
RenderedView(tree, marked, tips) ==
  CHOOSE view \in
    {[View(rendered) EXCEPT !.length = innerTextLength(tree) + tooltipsLength(tips)] :
       rendered \in {Rendered(tree, marked, tips)}} :
    TRUE

(***************************************************************************)
(* The steps of the helper                                                 *)
(***************************************************************************)
\* what a run of the helper writes at the time now: the highlights, the
\* timers of the clicks and the value of the input; signalled tells that the
\* writes have called handleMutations
Render(h, signalled) ==
  /\ highlighted' = IF h.cleared THEN h.highlighted ELSE highlighted
  /\ tooltips' = IF h.cleared
                   THEN [options |-> h.tooltips, hint |-> h.hint,
                         hintText |-> h.hintText]
                   ELSE tooltips
  /\ lastHelp' = IF h.cleared
                   THEN [ran |-> TRUE, highlighted |-> h.highlighted,
                         tooltips |-> h.tooltips, hint |-> h.hint,
                         settings |-> settings]
                   ELSE lastHelp
  /\ autoTimers' = autoTimers \o h.clicks
  /\ lastWrite' = IF h.setInput
                    THEN [kind |-> "setInputValue", autoAnswer |-> settings.autoAnswer]
                    ELSE lastWrite
  /\ debounceTimer' = IF signalled THEN now + observerDebounce ELSE debounceTimer
  /\ UNCHANGED settings

\* the site shows a page: the elements are new ones, none is highlighted;
\* the MutationObserver, once it is started, calls handleMutations
Shown(page, signal) ==
  /\ page # body
  /\ loaded => now + observerDebounce <= MaxClock
  /\ body' = page
  /\ highlighted' = {}
  /\ tooltips' = NoTooltips
  /\ timers' = IF loaded THEN signal.timers ELSE timers
  /\ debounceTimer' = IF loaded THEN now + observerDebounce ELSE debounceTimer
  /\ UNCHANGED <<wordDatabase, reverseDatabase, stats, storage, saveVars, auxVars,
                 loaded, trackerVars, passVars, now, lastProcessedTime,
                 lastContentLength, currentExerciseType, log, lastLookup,
                 settings, autoTimers, lastWrite, lastHelp>>

ShowExercise(page) == Shown(page, handleMutations(timers, debounceTimer, now))

\* WocabeeHelper.init(): WocabeeState.init() has loaded the store r.st, the
\* observer is started, processExercise runs on the page and showNotification
\* adds an element to the body, which calls handleMutations
Initialized(page, r, signal) ==
  /\ page = body
  /\ ~loaded
  /\ loaded' = TRUE
  /\ wordDatabase' = r.st.wordDatabase
  /\ reverseDatabase' = r.st.reverseDatabase
  /\ stats' = [r.st.stats EXCEPT !.answersHelped = @ + r.h.helped]
  /\ lastLookup' = NoLookup
  /\ timers' = signal.timers
  /\ Render(r.h, TRUE)
  /\ UNCHANGED <<storage, saveVars, auxVars, trackerVars, passVars, now, body,
                 lastProcessedTime, lastContentLength, currentExerciseType, log>>

HelperInit(page) ==
  Initialized(page,
              init(TheStore, storage, settings.autoAnswer, HelperPages[page], now),
              handleMutations(timers, debounceTimer, now))

\* the first pending timer of handleMutations is due and runs processChanges:
\* g is what the gates leave, r what the tracker and the helper do, signal
\* the handleMutations the writes of the helper call
HelperTimerFires(page, g, view, r, signal) ==
  /\ page = body
  /\ timers # <<>>
  /\ now >= Head(timers)
  /\ lastProcessedTime' = g.lastProcessedTime
  /\ lastContentLength' = g.lastContentLength
  /\ IF g.admitted
       THEN /\ wordDatabase' = r.t.st.wordDatabase
            /\ reverseDatabase' = r.t.st.reverseDatabase
            /\ stats' = [r.t.st.stats EXCEPT !.answersHelped = @ + r.h.helped]
            /\ storage' = IF r.t.saves = <<>> THEN storage
                          ELSE Persisted(r.t.saves[Len(r.t.saves)])
            /\ lastQuestion' = r.t.lastQuestion
            /\ isWaitingForResult' = r.t.isWaitingForResult
            /\ currentExerciseType' = IF r.t.raised THEN currentExerciseType
                                      ELSE view.type
            /\ lastLookup' = NoLookup
            /\ timers' = IF r.h.cleared THEN signal.timers ELSE Tail(timers)
            /\ Render(r.h, r.h.cleared)
       ELSE /\ timers' = Tail(timers)
            /\ UNCHANGED <<wordDatabase, reverseDatabase, stats, storage,
                           trackerVars, currentExerciseType, lastLookup,
                           helperVars, debounceTimer>>
  /\ UNCHANGED <<saveVars, auxVars, loaded, passVars, now, body, log>>

HelperProcessChangesOf(page, view) ==
  HelperTimerFires(page,
    processChanges(lastProcessedTime, lastContentLength, now, view.length),
    view,
    admittedHelp(checkForFeedbackAndLearn(TheStore, lastQuestion,
                                          isWaitingForResult, view.dom),
                 currentExerciseType, view, settings.autoAnswer,
                 HelperPages[page], now),
    handleMutations(Tail(timers), debounceTimer, now))

\* a pass that reads the elements of the site
HelperProcessChanges(page) == HelperProcessChangesOf(page, HelperViewOf[page])

\* the change handler of the auto-answer checkbox of the panel: the setting
\* is assigned and saved; turning it on shows a notification, an element
\* added to the body, which calls handleMutations
Toggled(doc, signal) ==
  /\ loaded
  /\ settings' = [settings EXCEPT !.autoAnswer = ~@]
  /\ storage' = Persisted(doc)
  /\ timers' = IF settings.autoAnswer THEN timers ELSE signal.timers
  /\ debounceTimer' = IF settings.autoAnswer THEN debounceTimer
                      ELSE signal.debounceTimer
  /\ UNCHANGED <<wordDatabase, reverseDatabase, stats, saveVars, auxVars, loaded,
                 trackerVars, passVars, now, body, lastProcessedTime,
                 lastContentLength, currentExerciseType, log, lastLookup,
                 highlighted, tooltips, autoTimers, lastWrite, lastHelp>>

ToggleAutoAnswer ==
  Toggled(saveToStorage(TheStore), handleMutations(timers, debounceTimer, now))

\* the first pending timer of handleSelectionExercise is due:
\* WocabeeDom.click(option)
AutoAnswerTimerFires ==
  /\ autoTimers # <<>>
  /\ now >= Head(autoTimers)
  /\ autoTimers' = Tail(autoTimers)
  /\ lastWrite' = [kind |-> "click", autoAnswer |-> settings.autoAnswer]
  /\ UNCHANGED <<wordDatabase, reverseDatabase, stats, storage, saveVars, auxVars,
                 loaded, trackerVars, passVars, gateVars, lastLookup, settings,
                 highlighted, tooltips, lastHelp>>

\* the vocabulary has been indexed on an earlier page
IndexedBefore(wordPairs) == ~loaded /\ AddWords(wordPairs)

NextHelper ==
  \/ IndexedBefore(HelperPairs)
  \/ \E page \in DOMAIN HelperPages : ShowExercise(page)
  \/ \E page \in DOMAIN HelperPages : HelperInit(page)
  \/ Tick
  \/ \E page \in DOMAIN HelperPages : HelperProcessChanges(page)
  \/ ToggleAutoAnswer
  \/ AutoAnswerTimerFires

\* the helper starts, time passes and the timers that are due fire; what the
\* site shows and what the user sets is left to them
\* HelperProcessChanges is enabled
TimerDue == timers # <<>> /\ now >= Head(timers)

\* a step of HelperProcessChanges: the only step that takes a due timer off
\* timers, leaves the page and the setting and is not the start of the helper
TimerRan ==
  /\ TimerDue
  /\ body' = body
  /\ loaded' = loaded
  /\ settings' = settings
  /\ timers' # timers

\* weak fairness of HelperInit, which is enabled until it has run, and of
\* HelperProcessChanges, by its enabling condition and its steps
FairHelper ==
  /\ <>loaded
  /\ WF_vars(Tick)
  /\ []<>(~TimerDue) \/ []<><<TimerRan>>_vars
  /\ WF_vars(AutoAnswerTimerFires)

SpecHelper == Init /\ [][NextHelper]_vars /\ FairHelper

(***************************************************************************)
(* The auto-answer setting                                                 *)
(***************************************************************************)
\* C30: while the autoAnswer setting is false the helper performs no click
\* on an answer option and no setInputValue: every click and every
\* setInputValue happens at a time the setting is true.
C30_NoWriteWhileAutoAnswerOff ==
  lastWrite.kind \in {"click", "setInputValue"} => lastWrite.autoAnswer

\* the timer of a click has fired after the setting was turned off
C30_Witness ==
  /\ lastWrite.kind = "click"
  /\ ~lastWrite.autoAnswer
  /\ ~settings.autoAnswer

(***************************************************************************)
(* The selection helper                                                    *)
(***************************************************************************)
\* the answer options of a page with their texts as handleSelectionExercise
\* compares them
RECURSIVE OptionTexts(_, _)
OptionTexts(tree, options) ==
  IF options = <<>> THEN <<>>
  ELSE <<[element |-> Head(options),
          text |-> ToLowerCase(getText(tree, Head(options)))]>>
       \o OptionTexts(tree, Tail(options))

HelperOptionsOf ==
  [Blank |-> OptionTexts(PageBlank, findAnswerOptions(PageBlank)),
   KatzeOptions |-> OptionTexts(PageKatzeOptions, findAnswerOptions(PageKatzeOptions)),
   HundOptions |-> OptionTexts(PageHundOptions, findAnswerOptions(PageHundOptions)),
   Katze |-> OptionTexts(PageKatze, findAnswerOptions(PageKatze))]

\* the options of the page the stored translation of its question matches
Matching(page) ==
  LET translations ==
        findTranslation(TheStore, HelperViewOf[page].dom.findCurrentQuestion)
  IN  {HelperOptionsOf[page][k].element :
         k \in {i \in DOMAIN HelperOptionsOf[page] :
                  isCorrect(HelperOptionsOf[page][i].text, translations)}}

\* the helper runs on the selection exercise shown, and a translation of the
\* question matches an option
Helpable(page) ==
  /\ body = page
  /\ loaded
  /\ HelperViewOf[page].type = "selection"
  /\ Matching(page) # {}

\* the matching options of the page shown are highlighted
Helped(page) ==
  /\ body = page
  /\ Matching(page) # {}
  /\ highlighted = Matching(page)

\* C29: every question of a selection exercise that is shown, and whose
\* stored translation matches an option, has that option highlighted
\* eventually, unless the site leaves the question first.
C29_ShownQuestionEventuallyHighlighted ==
  /\ Helpable("KatzeOptions") ~> (Helped("KatzeOptions") \/ body # "KatzeOptions")
  /\ Helpable("HundOptions") ~> (Helped("HundOptions") \/ body # "HundOptions")

\* the second question of the exercise: processChanges has just run on it and
\* has passed its gates, no timer is pending, and nothing is highlighted
C29_Witness ==
  /\ Helpable("HundOptions")
  /\ currentExerciseType = "selection"
  /\ lastProcessedTime = now
  /\ lastContentLength = HelperViewOf["HundOptions"].length
  /\ timers = <<>>
  /\ highlighted = {}

(***************************************************************************)
(* The autoHighlight and showHints settings                                *)
(***************************************************************************)
\* the change handler of the auto-highlight checkbox of the panel
HighlightToggled(doc) ==
  /\ loaded
  /\ settings' = [settings EXCEPT !.autoHighlight = ~@]
  /\ storage' = Persisted(doc)
  /\ UNCHANGED <<wordDatabase, reverseDatabase, stats, saveVars, auxVars, loaded,
                 trackerVars, passVars, gateVars, lastLookup, highlighted,
                 tooltips, autoTimers, lastWrite, lastHelp>>

ToggleAutoHighlight == HighlightToggled(saveToStorage(TheStore))

\* the change handler of the show-hints checkbox of the panel: turning it
\* off calls clearHighlights, and the classes and tooltips it removes are
\* changes of the document
HintsToggled(doc, signal) ==
  /\ loaded
  /\ settings' = [settings EXCEPT !.showHints = ~@]
  /\ storage' = Persisted(doc)
  /\ highlighted' = IF settings.showHints THEN {} ELSE highlighted
  /\ tooltips' = IF settings.showHints THEN NoTooltips ELSE tooltips
  /\ timers' = IF settings.showHints /\ (highlighted # {} \/ tooltips # NoTooltips)
                 THEN signal.timers
                 ELSE timers
  /\ debounceTimer' = IF settings.showHints
                          /\ (highlighted # {} \/ tooltips # NoTooltips)
                        THEN signal.debounceTimer
                        ELSE debounceTimer
  /\ UNCHANGED <<wordDatabase, reverseDatabase, stats, saveVars, auxVars, loaded,
                 trackerVars, passVars, now, body, lastProcessedTime,
                 lastContentLength, currentExerciseType, log, lastLookup,
                 autoTimers, lastWrite, lastHelp>>

ToggleShowHints ==
  HintsToggled(saveToStorage(TheStore), handleMutations(timers, debounceTimer, now))

NextSettings ==
  \/ IndexedBefore(HelperPairs)
  \/ \E page \in DOMAIN HelperPages : ShowExercise(page)
  \/ \E page \in DOMAIN HelperPages : HelperInit(page)
  \/ Tick
  \/ \E page \in DOMAIN HelperPages : HelperProcessChanges(page)
  \/ ToggleAutoHighlight
  \/ ToggleShowHints

SpecSettings == Init /\ [][NextSettings]_vars

\* C31: a run of processExercise while autoHighlight is false highlights no
\* answer option, and a run while showHints is false shows no tooltip on an
\* option and no hint at the input.
C31_SettingsGateFeatures ==
  lastHelp.ran =>
    /\ ~lastHelp.settings.autoHighlight => lastHelp.highlighted = {}
    /\ ~lastHelp.settings.showHints => lastHelp.tooltips = {} /\ lastHelp.hint = {}

\* a run with autoHighlight off has highlighted an option, and a run with
\* showHints off has shown a tooltip or a hint
C31_Witness ==
  /\ lastHelp.ran
  /\ ~lastHelp.settings.autoHighlight
  /\ ~lastHelp.settings.showHints
  /\ lastHelp.highlighted # {}
  /\ lastHelp.tooltips # {}

(***************************************************************************)
(* The discrimination of the feedback                                      *)
(***************************************************************************)
\* the element matches one of the selectors
MatchesAny(n, selectors) == \E k \in DOMAIN selectors : Matches(n, selectors[k])

\* the tree has an element of incorrect feedback and no element of correct
\* feedback: whatever a selector of the correct feedback matches is an
\* element of incorrect feedback
OnlyIncorrectFeedback(tree) ==
  /\ \E i \in DOMAIN tree : MatchesAny(tree[i], incorrectFeedbackSelectors)
  /\ \A i \in DOMAIN tree :
       MatchesAny(tree[i], correctFeedbackSelectors)
         => MatchesAny(tree[i], incorrectFeedbackSelectors)

OnlyIncorrectPages == {page \in DOMAIN Pages : OnlyIncorrectFeedback(Pages[page])}

\* C32: on a page that shows incorrect feedback and no correct feedback the
\* probe of the correct feedback finds nothing, the pass does not call
\* findCorrectAnswer, and the value of the answer input is not committed as
\* the answer of the tracked question.
C32_IncorrectFeedbackNotTakenAsCorrect ==
  (pass.ran /\ document \in OnlyIncorrectPages) =>
    /\ Seen.correctFeedback = 0
    /\ ~Contains(pass.calls, "findCorrectAnswer")
    /\ \A i \in DOMAIN pass.adds :
         ~(pass.adds[i].ret /\ pass.adds[i].target = Seen.inputValue)

\* the tracker was waiting for Katze; the page shows the feedback of the
\* class incorrect with the wrong answer in the input, and the pass has
\* committed the wrong answer
C32_Witness ==
  /\ WasAwaiting
  /\ document \in OnlyIncorrectPages
  /\ Seen.correctFeedback # 0
  /\ Seen.correctFeedback = Seen.incorrectFeedback
  /\ pass.calls = <<"findCorrectAnswer">>
  /\ Len(pass.adds) = 1 /\ pass.adds[1].ret
  /\ pass.adds[1].target = Seen.inputValue
  /\ Contains(findTranslation(TheStore, Tracked), Seen.inputValue)

(***************************************************************************)
(* The tracker on the document the helper has written to                   *)
(***************************************************************************)
\* the selection exercises
OptionPages == {"KatzeOptions", "HundOptions"}

\* what the helper has put on the page: the options highlighted and the
\* tooltips
Marks(marked, tips) == [highlighted |-> marked, tooltips |-> tips]

\* what processExercise puts on a selection exercise with the vocabulary
\* indexed before
HelpedMarks(tree) ==
  LET h == processExercise(addWords(EmptyStore, HelperPairs).st, FALSE, tree, 0)
  IN  Marks(h.highlighted,
            [options |-> h.tooltips, hint |-> h.hint, hintText |-> h.hintText])

\* the marks a selection exercise can carry: none, or that help
MarksOf == [page \in OptionPages |-> {Marks({}, NoTooltips), HelpedMarks(HelperPages[page])}]

\* the views of the selection exercises with these marks, computed once
RenderedViewOf ==
  [page \in OptionPages |->
     [marks \in MarksOf[page] |->
        RenderedView(HelperPages[page], marks.highlighted, marks.tooltips)]]

\* the timer of handleMutations fires on the page that carries marks
RenderedTimerFires(page, marks, g, view, r, signal) ==
  /\ marks = Marks(highlighted, tooltips)
  /\ HelperTimerFires(page, g, view, r, signal)

RenderedProcessChangesOf(page, marks, view) ==
  RenderedTimerFires(page, marks,
    processChanges(lastProcessedTime, lastContentLength, now, view.length),
    view,
    admittedHelp(checkForFeedbackAndLearn(TheStore, lastQuestion,
                                          isWaitingForResult, view.dom),
                 currentExerciseType, view, settings.autoAnswer,
                 HelperPages[page], now),
    handleMutations(Tail(timers), debounceTimer, now))

\* a pass that reads the document with the highlights and the tooltips of
\* the helper
RenderedProcessChanges(page, marks) ==
  RenderedProcessChangesOf(page, marks, RenderedViewOf[page][marks])

NextOwnOutput ==
  \/ IndexedBefore(HelperPairs)
  \/ \E page \in OptionPages : ShowExercise(page)
  \/ \E page \in OptionPages : HelperInit(page)
  \/ Tick
  \/ \E page \in OptionPages :
       \E marks \in MarksOf[page] : RenderedProcessChanges(page, marks)

SpecOwnOutput == Init /\ [][NextOwnOutput]_vars

\* the site's elements of the selection exercises carry no feedback
NoPageFeedback ==
  \A page \in OptionPages :
    /\ HelperViewOf[page].dom.correctFeedback = 0
    /\ HelperViewOf[page].dom.incorrectFeedback = 0

\* the pairs indexVocabulary has found
IndexedPairs == PairSet(addWords(EmptyStore, HelperPairs).st.wordDatabase)

\* C33: the tracker does not learn from the output of the helper: on pages
\* whose own elements never show feedback, the highlight of an option is no
\* correct-feedback signal and no source of an answer, so the store holds
\* nothing but the pairs indexed from the vocabulary.
C33_NoLearningFromOwnHighlight ==
  NoPageFeedback => PairSet(wordDatabase) \subseteq IndexedPairs

\* the option "cat" of the question Katze is highlighted, the page has shown
\* no feedback, and the text of that option with its tooltip is stored as a
\* translation of katze
C33_Witness ==
  /\ NoPageFeedback
  /\ body = "KatzeOptions"
  /\ highlighted = {2}
  /\ RenderedViewOf["KatzeOptions"][Marks(highlighted, tooltips)].dom.correctFeedback = 2
  /\ <<<<"k","a","t","z","e">>, ToLowerCase(W_cat \o TooltipText)>> \in PairSet(wordDatabase)

\* the marks of the page shown are among those the views are computed for
MarksKnown ==
  loaded /\ body \in OptionPages => Marks(highlighted, tooltips) \in MarksOf[body]

(***************************************************************************)
(* The feedback of the pass that discovers a question                      *)
(***************************************************************************)
\* the last pass has discovered its question: the page shows a question
\* that is not the one tracked before the pass
Discovered ==
  /\ pass.ran
  /\ Seen.findCurrentQuestion # <<>>
  /\ Seen.findCurrentQuestion # pass.lastQuestion

\* C34: a question is not paired with feedback that is already on the page
\* in the pass that discovers the question: that pass commits no pair.
C34_NoPairInDiscoveringPass ==
  Discovered => \A i \in DOMAIN pass.adds : ~pass.adds[i].ret

\* the question Katze was resolved; the pass that discovers the question
\* Hund sees the feedback and the input value "cat" left from Katze, and
\* commits (Hund, cat)
C34_Witness ==
  /\ Discovered
  /\ document = "HundStale"
  /\ pass.lastQuestion = W_Katze
  /\ ~pass.isWaitingForResult
  /\ Seen.correctFeedback # 0
  /\ Seen.inputValue = W_cat
  /\ pass.adds = <<[source |-> W_Hund, target |-> W_cat, ret |-> TRUE]>>

(***************************************************************************)
(* The start of the engine.  WocabeeHelper.init awaits WocabeeState.init,  *)
(* which awaits the read of chrome.storage.local; the observer of URL      *)
(* changes is installed beside it and its timer does not wait for either.  *)
(***************************************************************************)
\* the word lists the vocabulary page shows when the timer runs
StartupLists ==
  { << <<W_Katze, W_cat>> >>,
    << <<W_Hund, W_dog>> >>,
    << <<W_Katze, W_cat>>, <<W_Hund, W_cat>> >> }

\* the timer set on a URL change runs on a vocabulary page: reprocess()
\* calls processCurrentView and indexVocabulary, addWords adds the pairs and
\* each addWord that adds one calls saveToStorage without await; the page
\* shows no question, so processExercise clears the highlights and returns
UrlChangeTimer(wordPairs) ==
  LET r == addWords(TheStore, wordPairs)
  IN  /\ WithinBounds(r.st)
      /\ Len(pendingSaves) + Len(r.saves) <= MaxPending
      /\ Issue(r)
      /\ highlighted' = {}
      /\ tooltips' = NoTooltips
      /\ UNCHANGED <<loaded, trackerVars, passVars, gateVars, settings,
                     autoTimers, lastWrite, lastHelp>>

NextStartup ==
  \/ LoadFromStorage
  \/ \E l \in StartupLists : UrlChangeTimer(l)
  \/ SaveResolved
  \/ SaveRejected

SpecStartup == InitPersisted /\ [][NextStartup]_vars

\* C35: no add is applied to the store before loadFromStorage has
\* completed: until then the primary mapping is empty and no save has been
\* issued, so that the load discards no pair and no save of an unloaded
\* store overwrites the persisted database.
C35_NoAddBeforeLoad ==
  ~loaded => wordDatabase = <<>> /\ pendingSaves = <<>>

\* storage held "hot dog"; the timer has added (Katze, cat) before the read
\* completed, the load has replaced the mapping and the save of the unloaded
\* store has resolved: the store has lost "katze" and storage has lost
\* "hot dog"
C35_Witness ==
  /\ loaded
  /\ pendingSaves = <<>>
  /\ ~saveFailed
  /\ Has(wordDatabase, normalizeWord(W_HotDog))
  /\ ~Has(wordDatabase, normalizeWord(W_Katze))
  /\ Has(PersistedMapping, normalizeWord(W_Katze))
  /\ ~Has(PersistedMapping, normalizeWord(W_HotDog))

(***************************************************************************)
(* The Clear DB button of the toolbar popup.  Its click handler awaits     *)
(* chrome.storage.local.remove and then sendToContentScript, which catches *)
(* the error of a message no content script receives; the engine of the    *)
(* page answers the message with clearDatabase and goes on saving.         *)
(***************************************************************************)
\* WocabeeState.addWord(source, target) returns in the engine of the page;
\* the words added after the removal of the popup are kept
EngineAddWord(source, target) ==
  LET r == addWord(TheStore, source, target)
  IN  /\ loaded
      /\ WithinBounds(r.st)
      /\ Len(pendingSaves) + Len(r.saves) <= MaxPending
      /\ wordDatabase' = r.st.wordDatabase
      /\ reverseDatabase' = r.st.reverseDatabase
      /\ stats' = r.st.stats
      /\ pendingSaves' = pendingSaves \o r.saves
      /\ lastLookup' = NoLookup
      /\ popupClear' =
           IF popupClear.phase # "idle" /\ r.ret
             THEN [popupClear EXCEPT !.added = @ \cup {normalizeWord(source)}]
             ELSE popupClear
      /\ UNCHANGED <<storage, saveFailed, scored, uiText, loaded, trackerVars,
                     passVars, gateVars, helperVars>>

\* the click on btn-clear is confirmed and chrome.storage.local.remove has
\* resolved: the word database and the stats are gone from storage
PopupRemove ==
  /\ popupClear.phase = "idle"
  /\ storage' = NoStorage
  /\ popupClear' = [phase |-> "removed", before |-> Keys(PersistedMapping),
                    pending |-> Len(pendingSaves), delivered |-> FALSE,
                    added |-> {}]
  /\ UNCHANGED <<wordDatabase, reverseDatabase, stats, loaded, trackerVars,
                 passVars, gateVars, lastLookup, saveVars, scored, uiText,
                 helperVars>>

\* the message clearDatabase reaches the listener init has set up: the
\* handler calls WocabeeState.clearDatabase(), which clears the store and
\* awaits its save, and answers the popup
ClearMessageDelivered ==
  LET r == clearDatabase(TheStore)
  IN  /\ popupClear.phase = "removed"
      /\ loaded
      /\ Len(pendingSaves) + Len(r.saves) <= MaxPending
      /\ wordDatabase' = r.st.wordDatabase
      /\ reverseDatabase' = r.st.reverseDatabase
      /\ stats' = r.st.stats
      /\ pendingSaves' = pendingSaves \o r.saves
      /\ lastLookup' = NoLookup
      /\ pass' = NoPass
      /\ e2e' = IF e2e = 1 THEN 1 ELSE 0
      /\ popupClear' = [popupClear EXCEPT !.phase = "done", !.delivered = TRUE]
      /\ UNCHANGED <<storage, saveFailed, scored, uiText, loaded, trackerVars,
                     document, gateVars, helperVars>>

\* no content script receives the message: chrome.tabs.sendMessage rejects,
\* sendToContentScript logs it and the click handler returns
ClearMessageLost ==
  /\ popupClear.phase = "removed"
  /\ popupClear' = [popupClear EXCEPT !.phase = "done"]
  /\ UNCHANGED <<wordDatabase, reverseDatabase, stats, storage, loaded,
                 trackerVars, passVars, gateVars, lastLookup, saveVars, scored,
                 uiText, helperVars>>

NextPopup ==
  \/ LoadFromStorage
  \/ \E p \in SavePairs : EngineAddWord(p[1], p[2])
  \/ PopupRemove
  \/ ClearMessageDelivered
  \/ ClearMessageLost
  \/ SaveResolved
  \/ SaveRejected

SpecPopup == InitPersisted /\ [][NextPopup]_vars

\* the words storage held when the removal resolved and the engine has not
\* added again since
ClearedWords == popupClear.before \ popupClear.added

\* C36: once the Clear DB action of the popup has completed, no word that
\* was stored before it is in persisted storage again, however the removal,
\* the clearDatabase message and the saves of the engine interleave.
C36_ClearedWordsStayCleared ==
  popupClear.phase = "done" => \A k \in ClearedWords : ~Has(PersistedMapping, k)

\* storage held "hot dog" and no save was pending when the popup removed it;
\* the message was not delivered, the engine, which had loaded "hot dog",
\* has added (Hund, cat) and its save has resolved: "hot dog" is persisted
\* again
C36_Witness ==
  /\ popupClear.phase = "done"
  /\ ~popupClear.delivered
  /\ popupClear.pending = 0
  /\ normalizeWord(W_HotDog) \in ClearedWords
  /\ pendingSaves = <<>>
  /\ ~saveFailed
  /\ Has(PersistedMapping, normalizeWord(W_HotDog))
  /\ Has(PersistedMapping, normalizeWord(W_Hund))

(***************************************************************************)
(* The changes the gate leaves unprocessed.  processChanges returns early  *)
(* when the last run is less than 500 ms ago or the length of the text has *)
(* changed by less than 10, and sets no timer when it does.                *)
(***************************************************************************)
\* a typing exercise with a line of text below the question, and the same
\* page once the answer was typed and accepted
PageKatzeAsked ==
  <<H1(W_Katze), Input(<<>>),
    Div(<<>>, <<"F","r","a","g","e"," ","e","i","n","s"," ","v","o","n"," ","z","e","h","n">>)>>

PageKatzeAnswered ==
  <<H1(W_Katze), Input(W_cat),
    Div(<<>>, <<"F","r","a","g","e"," ","e","i","n","s"," ","v","o","n"," ","z","e","h","n">>),
    Div(<<"s","u","c","c","e","s","s">>, <<"C","o","r","r","e","c","t","!">>)>>

ChangeViewOf ==
  [Blank |-> View(PageBlank), KatzeAsked |-> View(PageKatzeAsked),
   KatzeAnswered |-> View(PageKatzeAnswered)]

\* the site changes the page while the timer of the signal can still fire
\* within the time observed
SiteChanges(page) ==
  /\ now + observerDebounce <= MaxClock
  /\ HandleMutations(page)

\* processChanges runs on the page in the browser
ChangesProcessed(page) == ProcessChangesOf(page, ChangeViewOf[page])

NextChanges ==
  \/ LoadFromStorage
  \/ \E page \in DOMAIN ChangeViewOf : SiteChanges(page)
  \/ Tick
  \/ \E page \in DOMAIN ChangeViewOf : ChangesProcessed(page)

\* a step of ChangesProcessed: the first pending timer, which is due, is
\* taken off timers and the run is logged
DueTimerRan ==
  /\ TimerDue
  /\ timers' = Tail(timers)
  /\ body' = body
  /\ now' = now
  /\ log' # log

\* the store is loaded, time passes and a due timer fires; when the site
\* changes the page is left to the site
FairChanges ==
  /\ WF_vars(LoadFromStorage)
  /\ WF_vars(Tick)
  /\ []<>(~TimerDue) \/ []<><<DueTimerRan>>_vars

SpecChanges == Init /\ [][NextChanges]_vars /\ FairChanges

\* C37: no change is left unprocessed for ever: the feedback that appears
\* while the tracker waits for the result of a question, and stays on the
\* page, is eventually examined by the tracker, which then ends the wait.
C37_FeedbackEventuallyExamined ==
  (loaded /\ isWaitingForResult /\ body = "KatzeAnswered")
    ~> (body # "KatzeAnswered" \/ ~isWaitingForResult)

\* the tracker waits for Katze; the feedback is on the page, the run of
\* processChanges its signal has scheduled was refused by a gate, and no
\* timer is pending
C37_Witness ==
  /\ loaded
  /\ isWaitingForResult
  /\ lastQuestion = W_Katze
  /\ body = "KatzeAnswered"
  /\ ChangeViewOf["KatzeAnswered"].dom.correctFeedback # 0
  /\ log.runAt = now
  /\ ~log.admitted
  /\ timers = <<>>

(***************************************************************************)
(* The question that is asked again                                        *)
(***************************************************************************)
\* the last pass has found the question the tracker had resolved before it,
\* on a page that shows no feedback: the word is asked again
AskedAgain ==
  /\ pass.ran
  /\ Seen.findCurrentQuestion # <<>>
  /\ Seen.findCurrentQuestion = pass.lastQuestion
  /\ ~pass.isWaitingForResult
  /\ Seen.correctFeedback = 0
  /\ Seen.incorrectFeedback = 0

\* C38: every presentation of a question can be learned: a pass that finds
\* the question the tracker has resolved, asked again, leaves the tracker
\* waiting for its result, so that the feedback of the second presentation
\* is examined.
C38_AskedAgainIsAwaited ==
  AskedAgain => isWaitingForResult /\ lastQuestion = Seen.findCurrentQuestion

\* Katze was resolved and (Katze, cat) learned; the pass over the page that
\* asks Katze again has left the tracker idle
C38_Witness ==
  /\ AskedAgain
  /\ document = "Katze"
  /\ pass.lastQuestion = W_Katze
  /\ <<normalizeWord(W_Katze), normalizeWord(W_cat)>> \in PairSet(pass.before.wordDatabase)
  /\ lastQuestion = W_Katze
  /\ ~isWaitingForResult

(***************************************************************************)
(* The notifications of the tracker                                        *)
(***************************************************************************)
\* the calls of addWord of the last pass that have returned true
GainingAdds == {i \in DOMAIN pass.adds : pass.adds[i].ret}

\* C39: a learn event is emitted only when the store has gained a pair: a
\* pass emits as many events as its calls of addWord have returned true,
\* each for the pair of such a call, and the store gains exactly those
\* pairs; a pass whose pair addWord refuses, as invalid or as stored
\* already, emits nothing, leaves the store as it was and ends the wait.
C39_EventsAreGainedPairs ==
  pass.ran =>
    /\ Len(pass.events) = Cardinality(GainingAdds)
    /\ \A i \in DOMAIN pass.events :
         \E j \in GainingAdds :
           /\ pass.events[i].question = pass.adds[j].source
           /\ pass.events[i].answer = pass.adds[j].target
    /\ PairSet(wordDatabase) \ PairSet(pass.before.wordDatabase)
         = {<<normalizeWord(pass.adds[j].source), normalizeWord(pass.adds[j].target)>> :
              j \in GainingAdds}
    /\ (pass.adds # <<>> /\ GainingAdds = {})
         => /\ pass.events = <<>>
            /\ TheStore = pass.before
            /\ ~isWaitingForResult

\* the tracker waited for Katze while (katze, cat) was stored; the pass has
\* seen the correct feedback with "cat" typed, addWord has returned false,
\* no event was emitted and the wait has ended
C39_Witness ==
  /\ pass.ran
  /\ pass.isWaitingForResult
  /\ Seen.correctFeedback # 0
  /\ <<normalizeWord(W_Katze), normalizeWord(W_cat)>> \in PairSet(pass.before.wordDatabase)
  /\ pass.adds = <<[source |-> W_Katze, target |-> W_cat, ret |-> FALSE]>>
  /\ pass.events = <<>>
  /\ TheStore = pass.before
  /\ ~isWaitingForResult

====
